---- MODULE Spec2Model ----
(***************************************************************************)
(* A model of supriya's non-realtime Session                               *)
(* (supriya/tools/nonrealtimetools/Session.py): a session is built with    *)
(* add_synth, add_bus, add_bus_group and timed overrides, and              *)
(* to_osc_bundles compiles it into timestamped bundles of OSC messages.    *)
(* Beside it: the trigger pattern slot of a live mixer track, the          *)
(* construction of unit generators, the groups of the realtime server and  *)
(* the iteration of patterns.                                              *)
(***************************************************************************)
EXTENDS Integers, Sequences, FiniteSets, TLC

VARIABLES
    input_count,    \* Session._input_count
    output_count,   \* Session._output_count
    synths,         \* Session._synths, in the order of the add_synth calls
    buses,          \* Session._buses (an OrderedDict), in insertion order
    calls,          \* number of to_osc_bundles calls made so far
    timespan,       \* the timespan argument of the last to_osc_bundles call
    session,        \* to_osc_bundles' local `session` (self, or the masked copy)
    id_mapping,     \* to_osc_bundles' local `id_mapping`
    request_mapping, \* to_osc_bundles' local `request_mapping`
    osc_bundles,    \* the list returned by the last to_osc_bundles call
    raised,         \* the exception the last to_osc_bundles call raised, or ""
    previous,       \* the list returned by the call before it
    method,         \* the method last called: to_osc_bundles or to_datagram
    datagram,       \* the bytes returned by the last to_datagram call
    slot,           \* a TriggerPatternSlot and the synths of its group
    ugen,           \* a unit generator class called, and what it returned
    nodes,          \* the node tree of a realtime server
    iterator,       \* a pattern and the iterator over it
    noise           \* a ChoicePattern or ShufflePattern being iterated

vars == << input_count, output_count, synths, buses, calls, timespan,
           session, id_mapping, request_mapping, osc_bundles, raised,
           previous, method, datagram, slot, ugen, nodes, iterator, noise >>

(* Where a specification has no slot, unit generator, node tree or         *)
(* pattern, the variable holds None.                                       *)
None == << >>
unchanged_outside_session == UNCHANGED << slot, ugen, nodes, iterator, noise >>
unchanged_session ==
    UNCHANGED << input_count, output_count, synths, buses, calls, timespan,
                 session, id_mapping, request_mapping, osc_bundles, raised,
                 previous, method, datagram >>

----------------------------------------------------------------------------
(* Bounds of the model.                                                    *)

MaxOffset == 2
NumSynthDefs == 2
MaxCalls == 2
\* the sessions of Spec
MaxSynths == 3
\* the sessions of SpecMix
MixSynths == 2
MixSynthEvents == 1
MixBuses == 1
MixBusEvents == 1
\* the sessions of SpecBus
BusSynths == 1
MaxBuses == 3
MaxBusEvents == 3
MaxGroupSize == 2
MaxInputs == 1
MaxOutputs == 2
\* the sessions of SpecDatagram
DatagramSynths == 2
DatagramBuses == 2
DatagramBusEvents == 1

(* Program constants.                                                      *)

Infinity == 100
NegativeInfinity == -100
DefaultInputCount == 0
DefaultOutputCount == 2
FirstNodeId == 1000

AUDIO == "audio"
CONTROL == "control"

Offsets == 0..MaxOffset
SynthDefs == 1..NumSynthDefs
IsFinite(offset) == offset # Infinity /\ offset # NegativeInfinity

(* The overrides `synth[key] = value` can record: a number, an audio bus,  *)
(* a control bus.                                                          *)
EventKinds == {"set", "map_a", "map_c"}
MaxNegative == 1
ScheduleSynths == 3
MixValues == 1
MaxValue == 2
OverrideSynths == 2
OverrideEvents == 2
Settings == {<< >>} \cup {<< value >> : value \in 1..MaxValue}

----------------------------------------------------------------------------
(* Python's sorted(): a stable sort.  Keys are tuples of integers of one   *)
(* length, compared lexicographically; the result lists the positions of   *)
(* `keys` in sorted order.                                                 *)

LexLess(a, b) ==
    \E k \in 1..Len(a) : a[k] < b[k] /\ \A m \in 1..(k - 1) : a[m] = b[m]

Rank(keys, i) ==
    Cardinality({j \in 1..Len(keys) :
        LexLess(keys[j], keys[i]) \/ (keys[j] = keys[i] /\ j < i)})

SortedPositions(keys) ==
    [r \in 1..Len(keys) |-> CHOOSE i \in 1..Len(keys) : Rank(keys, i) = r - 1]

RECURSIVE ConcatAll(_)
ConcatAll(seqs) ==
    IF seqs = << >> THEN << >> ELSE Head(seqs) \o ConcatAll(Tail(seqs))

SeqToSet(seq) == {seq[i] : i \in 1..Len(seq)}

(* The elements of a finite set of integers as an ascending sequence.      *)
RECURSIVE Ascending(_)
Ascending(S) ==
    IF S = {} THEN << >>
    ELSE LET least == CHOOSE x \in S : \A y \in S : x <= y
         IN << least >> \o Ascending(S \ {least})

(* for key, items in additions.items():                                    *)
(*     mapping.setdefault(key, []).extend(items)                           *)
ExtendAll(mapping, additions) ==
    [key \in DOMAIN mapping \cup DOMAIN additions |->
        (IF key \in DOMAIN mapping THEN mapping[key] ELSE << >>)
        \o (IF key \in DOMAIN additions THEN additions[key] ELSE << >>)]

EmptyMapping == [x \in {} |-> << >>]

----------------------------------------------------------------------------
(* The session under construction.                                         *)

Self == [ synths |-> synths, buses |-> buses,
          input_count |-> input_count, output_count |-> output_count ]

(* Session.__init__(input_count, output_count); Session() takes the        *)
(* defaults.                                                               *)
NewSession(inputs, outputs) ==
    [ synths |-> << >>, buses |-> << >>,
      input_count |-> inputs, output_count |-> outputs ]

(* The timespan argument of to_osc_bundles: None, or a Timespan.           *)
NoTimespan == [ given |-> FALSE, start_offset |-> 0, stop_offset |-> 0 ]
Timespan(start_offset, stop_offset) ==
    [ given |-> TRUE, start_offset |-> start_offset,
      stop_offset |-> stop_offset ]

(* Before the first to_osc_bundles call its locals and results are unset;  *)
(* `previous` holds at most one earlier result.                            *)
NotCalled ==
    /\ calls = 0
    /\ timespan = NoTimespan
    /\ session = NewSession(0, 0)
    /\ id_mapping = EmptyMapping
    /\ request_mapping = EmptyMapping
    /\ osc_bundles = << >>
    /\ raised = ""
    /\ previous = << >>
    /\ method = ""
    /\ datagram = << >>

NewSessionOnly(inputs, outputs) ==
    /\ input_count = inputs
    /\ output_count = outputs
    /\ synths = << >>
    /\ buses = << >>
    /\ NotCalled

InitSession(inputs, outputs) ==
    /\ NewSessionOnly(inputs, outputs)
    /\ slot = None
    /\ ugen = None
    /\ nodes = None
    /\ iterator = None
    /\ noise = None

Init == InitSession(DefaultInputCount, DefaultOutputCount)

InitBus ==
    \E inputs \in 0..MaxInputs, outputs \in 0..MaxOutputs :
        InitSession(inputs, outputs)

unchanged_call ==
    /\ UNCHANGED << calls, timespan, session, id_mapping, request_mapping,
                    osc_bundles, raised, previous, method, datagram >>
    /\ unchanged_outside_session

SynthEventCount ==
    LET RECURSIVE Sum(_)
        Sum(i) == IF i = 0 THEN 0
                  ELSE Cardinality(synths[i].events) + Sum(i - 1)
    IN Sum(Len(synths))

BusEventCount ==
    LET RECURSIVE Sum(_)
        Sum(i) == IF i = 0 THEN 0 ELSE Len(buses[i].events) + Sum(i - 1)
    IN Sum(Len(buses))

unchanged_compilation ==
    /\ UNCHANGED << calls, timespan, session, id_mapping, request_mapping,
                    osc_bundles, previous, method, datagram >>
    /\ unchanged_outside_session

(* Synth.__init__: the interval of the synth is validated: an offset       *)
(* below zero or a stop offset before the start offset is a                *)
(* SchedulingError.                                                        *)
SynthInit(start_offset, stop_offset) ==
    IF start_offset >= 0 /\ start_offset <= stop_offset
    THEN "" ELSE "SchedulingError"

Synth(start_offset, stop_offset, synthdef, synth_kwargs) ==
    [ start_offset |-> start_offset, stop_offset |-> stop_offset,
      synthdef |-> synthdef, synth_kwargs |-> synth_kwargs, events |-> {} ]

(* add_synth inserting the synth before its interval is validated.         *)
add_synth_insertFirst(start_offset, stop_offset, synthdef, synth_kwargs, cap) ==
    /\ calls = 0
    /\ Len(synths) < cap
    /\ raised' = SynthInit(start_offset, stop_offset)
    /\ synths' = Append(synths,
                      Synth(start_offset, stop_offset, synthdef,
                            synth_kwargs))
    /\ UNCHANGED << input_count, output_count, buses >>
    /\ unchanged_compilation

(* add_synth(start_offset, stop_offset, synthdef, **synth_kwargs): a Synth *)
(* over [start_offset, stop_offset) with the settings synth_kwargs is      *)
(* inserted into _synths.  The one parameter of the synthdefs is           *)
(* 'frequency'; synth_kwargs is << >> or << its value >>.                  *)
(* nonrealtimetools.Synth(session, start_offset, stop_offset, ...) raises   *)
(* SchedulingError; the session is then left as it was.                    *)
add_synth(start_offset, stop_offset, synthdef, synth_kwargs, cap) ==
    /\ calls = 0
    /\ Len(synths) < cap
    /\ raised' = SynthInit(start_offset, stop_offset)
    /\ synths' = IF raised' = ""
                 THEN Append(synths,
                          Synth(start_offset, stop_offset, synthdef,
                                synth_kwargs))
                 ELSE synths
    /\ UNCHANGED << input_count, output_count, buses >>
    /\ unchanged_compilation

(* with session.at(offset): synth['frequency'] = value, a number           *)
(* ("set") or a bus ("map_a", "map_c").                                    *)
at_set(i, offset, kind, value, cap) ==
    /\ calls = 0
    /\ i \in 1..Len(synths)
    /\ SynthEventCount < cap
    /\ \A e \in synths[i].events : e[1] # offset \/ e[2] # kind
    /\ synths' = [synths EXCEPT
           ![i].events = @ \cup {<< offset, kind, value >>}]
    /\ UNCHANGED << input_count, output_count, buses >>
    /\ unchanged_call

(* add_bus(calculation_rate): one Bus outside any group.                   *)
add_bus(calculation_rate, cap) ==
    /\ calls = 0
    /\ Len(buses) < cap
    /\ buses' = Append(buses,
           [ calculation_rate |-> calculation_rate, bus_group |-> 0,
             events |-> << >> ])
    /\ UNCHANGED << input_count, output_count, synths >>
    /\ unchanged_call

(* The bus groups of a session are numbered from 1; 0 stands for           *)
(* bus.bus_group is None.                                                  *)
GroupsOf(bs) == {bs[i].bus_group : i \in 1..Len(bs)} \ {0}
GroupMembers(bs, g) == {i \in 1..Len(bs) : bs[i].bus_group = g}

(* add_bus_group(bus_count, calculation_rate): every bus of the new group  *)
(* is entered into _buses.                                                 *)
add_bus_group(bus_count, calculation_rate, cap) ==
    /\ calls = 0
    /\ Len(buses) + bus_count <= cap
    /\ LET g == Cardinality(GroupsOf(buses)) + 1
       IN buses' = buses \o
              [k \in 1..bus_count |->
                  [ calculation_rate |-> calculation_rate, bus_group |-> g,
                    events |-> << >> ]]
    /\ UNCHANGED << input_count, output_count, synths >>
    /\ unchanged_call

(* with session.at(offset): bus.set_(value) appends (offset, value) to     *)
(* bus._events.  The values written are numbered in the order of the       *)
(* calls, which tells them apart.                                          *)
bus_set(i, offset, cap) ==
    /\ calls = 0
    /\ i \in 1..Len(buses)
    /\ BusEventCount < cap
    /\ buses' = [buses EXCEPT
           ![i].events = Append(@, << offset, BusEventCount + 1 >>)]
    /\ UNCHANGED << input_count, output_count, synths >>
    /\ unchanged_call

----------------------------------------------------------------------------
(* Identifier assignment.                                                  *)

Permute(seq, positions) == [r \in 1..Len(positions) |-> seq[positions[r]]]

(* Iterating a TimespanCollection: by start offset, then in insertion      *)
(* order.                                                                  *)
IterateTimespans(ss) ==
    SortedPositions([i \in 1..Len(ss) |-> << ss[i].start_offset >>])

(* The ordering of timespans that sorted() uses: by start offset, then by  *)
(* stop offset.                                                            *)
TimespanKey(synth) == << synth.start_offset, synth.stop_offset >>

(* SortedSynths with the sorted() call left out: the synths in the order   *)
(* in which the collection iterates them.                                  *)
SortedSynths_unsorted(ss) == IterateTimespans(ss)

(* sorted(self._synths): the positions of _synths in sorted order.         *)
SortedSynths(ss) ==
    LET Sorted(iterated) ==
            Permute(iterated, SortedPositions(
                [r \in 1..Len(ss) |-> TimespanKey(ss[iterated[r]])]))
    IN Sorted(IterateTimespans(ss))

(* NodeIdAllocator.allocate_node_id(), the n-th call on a new allocator.   *)
AllocateNodeId(n) == FirstNodeId + (n - 1)

(* BuildSynthIdMapping with the allocator made anew for every synth.       *)
BuildSynthIdMapping_newAllocator(sess) ==
    [key \in {<< "synth", i >> : i \in 1..Len(sess.synths)} |->
        AllocateNodeId(1)]

(* Session._build_synth_id_mapping: the synths in sorted order take the    *)
(* node IDs in allocation order.                                           *)
BuildSynthIdMapping(sess) ==
    LET Mapping(order) ==
            [key \in {<< "synth", i >> : i \in 1..Len(order)} |->
                AllocateNodeId(CHOOSE r \in 1..Len(order) : order[r] = key[2])]
    IN Mapping(SortedSynths(sess.synths))

(* BlockAllocator: with no block ever freed, first fit hands out the       *)
(* blocks upwards from heap_minimum.                                       *)
BlockAllocator(heap_minimum) == [ free |-> heap_minimum ]
Allocate(allocator, size) ==
    [ block_id |-> allocator.free,
      allocator |-> [ free |-> allocator.free + size ] ]

(* One pass of the loop over self._buses of _build_bus_id_mapping for a    *)
(* bus that is not yet in the mapping; `got` is what the allocator of the  *)
(* bus's rate returned.  st.blocks lists the blocks the allocators have    *)
(* handed out.                                                             *)
BusStep(bus, i, size, got, st) ==
    LET is_audio == bus.calculation_rate = AUDIO
        \* for bus_id in range(block_id, block_id + size):
        \*     mapping[bus] = bus_id
        \* leaves the last bus_id of the range under the key `bus`.
        bus_id == IF bus.bus_group = 0 THEN got.block_id
                  ELSE got.block_id + size - 1
        added == IF bus.bus_group = 0
                 THEN (<< "bus", i >> :> bus_id)
                 ELSE (<< "bus", i >> :> bus_id)
                      @@ (<< "group", bus.bus_group >> :> got.block_id)
    IN [ mapping |-> added @@ st.mapping,
         audio |-> IF is_audio THEN got.allocator ELSE st.audio,
         control |-> IF is_audio THEN st.control ELSE got.allocator,
         blocks |-> Append(st.blocks,
                        [ calculation_rate |-> bus.calculation_rate,
                          block_id |-> got.block_id, size |-> size ]) ]

(* The loop over self._buses of Session._build_bus_id_mapping, from bus i  *)
(* on; st holds the mapping and the two allocators.                        *)
RECURSIVE BusLoop(_, _, _)
BusLoop(bs, i, st) ==
    IF i > Len(bs) THEN st
    ELSE IF << "bus", i >> \in DOMAIN st.mapping THEN BusLoop(bs, i + 1, st)
    ELSE
      LET size == IF bs[i].bus_group = 0 THEN 1
                  ELSE Cardinality(GroupMembers(bs, bs[i].bus_group))
          allocator == IF bs[i].calculation_rate = AUDIO THEN st.audio
                       ELSE st.control
      IN BusLoop(bs, i + 1,
             BusStep(bs[i], i, size, Allocate(allocator, size), st))

(* BuildBusIdMapping with the audio allocator made without heap_minimum.   *)
BuildBusIdMapping_noHeapMinimum(sess) ==
    LET outputs == [key \in {<< "out", k >> : k \in 1..sess.output_count} |->
                       key[2] - 1]
        inputs == [key \in {<< "in", k >> : k \in 1..sess.input_count} |->
                      sess.output_count + key[2] - 1]
    IN BusLoop(sess.buses, 1,
           [ mapping |-> outputs @@ inputs,
             audio |-> BlockAllocator(0),
             control |-> BlockAllocator(0),
             blocks |-> << >> ]).mapping

(* BuildBusIdMapping with the control allocator given the heap minimum of  *)
(* the audio allocator.                                                    *)
BuildBusIdMapping_sharedMinimum(sess) ==
    LET first_private_bus_id == sess.input_count + sess.output_count
        outputs == [key \in {<< "out", k >> : k \in 1..sess.output_count} |->
                       key[2] - 1]
        inputs == [key \in {<< "in", k >> : k \in 1..sess.input_count} |->
                      sess.output_count + key[2] - 1]
    IN BusLoop(sess.buses, 1,
           [ mapping |-> outputs @@ inputs,
             audio |-> BlockAllocator(first_private_bus_id),
             control |-> BlockAllocator(first_private_bus_id),
             blocks |-> << >> ]).mapping

(* Session._build_bus_id_mapping                                           *)
BuildBusIdMapping(sess) ==
    LET first_private_bus_id == sess.input_count + sess.output_count
        outputs == [key \in {<< "out", k >> : k \in 1..sess.output_count} |->
                       key[2] - 1]
        inputs == [key \in {<< "in", k >> : k \in 1..sess.input_count} |->
                      sess.output_count + key[2] - 1]
    IN BusLoop(sess.buses, 1,
           [ mapping |-> outputs @@ inputs,
             audio |-> BlockAllocator(first_private_bus_id),
             control |-> BlockAllocator(0),
             blocks |-> << >> ]).mapping

(* The blocks that the allocators of _build_bus_id_mapping hand out, in    *)
(* the order of the allocate calls.                                        *)
AllocatedBlocks(sess) ==
    BusLoop(sess.buses, 1,
        [ mapping |-> EmptyMapping,
          audio |-> BlockAllocator(sess.input_count + sess.output_count),
          control |-> BlockAllocator(0),
          blocks |-> << >> ]).blocks

----------------------------------------------------------------------------
(* Requests.  A request is a record of its type and its arguments.         *)

Request(type, args) == [ type |-> type, args |-> args ]

(* BusEventTriples without the test of the calculation rate.               *)
BusEventTriples_anyRate(sess, idm) ==
    ConcatAll([i \in 1..Len(sess.buses) |->
        [e \in 1..Len(sess.buses[i].events) |->
            << sess.buses[i].events[e][1], idm[<< "bus", i >>],
               sess.buses[i].events[e][2] >>]])

(* The (offset, bus_id, value) triples in the order in which               *)
(* _collect_bus_requests meets them: bus by bus, event by event; only      *)
(* control-rate buses are read.                                            *)
BusEventTriples(sess, idm) ==
    ConcatAll([i \in 1..Len(sess.buses) |->
        IF sess.buses[i].calculation_rate # CONTROL THEN << >>
        ELSE [e \in 1..Len(sess.buses[i].events) |->
                 << sess.buses[i].events[e][1], idm[<< "bus", i >>],
                    sess.buses[i].events[e][2] >>]])

(* events_by_offset.setdefault(offset, {})[bus_id] = value: a later        *)
(* triple overwrites an earlier one of the same offset and bus_id.         *)
EventsByOffset(triples) ==
    [offset \in {triples[n][1] : n \in 1..Len(triples)} |->
        [bus_id \in {triples[n][2] : n \in
                        {m \in 1..Len(triples) : triples[m][1] = offset}} |->
            triples[CHOOSE n \in 1..Len(triples) :
                /\ triples[n][1] = offset /\ triples[n][2] = bus_id
                /\ \A m \in (n + 1)..Len(triples) :
                       ~(triples[m][1] = offset /\ triples[m][2] = bus_id)][3]]]

(* ControlBusSetRequest(index_value_pairs=sorted(events.items()))          *)
ControlBusSetRequest(events) ==
    LET Pairs(indices) ==
            ConcatAll([n \in 1..Len(indices) |->
                << indices[n], events[indices[n]] >>])
    IN Request("ControlBusSetRequest", Pairs(Ascending(DOMAIN events)))

(* Session._collect_bus_requests                                           *)
CollectBusRequests(sess, mapping, idm) ==
    LET Collect(events_by_offset) ==
            ExtendAll(mapping,
                [offset \in DOMAIN events_by_offset |->
                    << ControlBusSetRequest(events_by_offset[offset]) >>])
    IN Collect(EventsByOffset(BusEventTriples(sess, idm)))

(* TimespanCollection.iterate_simultaneities: the offsets at which a       *)
(* timespan starts or stops, ascending.                                    *)
Simultaneities(ss) ==
    Ascending({ss[i].start_offset : i \in 1..Len(ss)}
              \cup {ss[i].stop_offset : i \in 1..Len(ss)})

(* SynthDefsToOffsets without `if synthdef in synthdefs_to_offsets:        *)
(* continue`: a later start event overwrites the offset of its synthdef.   *)
RECURSIVE SynthDefsToOffsets_overwriting(_, _, _)
SynthDefsToOffsets_overwriting(ss, simultaneities, seen) ==
    IF simultaneities = << >> THEN seen
    ELSE
      LET offset == Head(simultaneities)
          start_events == {i \in 1..Len(ss) : ss[i].start_offset = offset}
          started == {ss[i].synthdef : i \in start_events}
      IN SynthDefsToOffsets_overwriting(ss, Tail(simultaneities),
             [synthdef \in started |-> offset] @@ seen)

(* The first loop of _collect_synthdef_requests: a synthdef is entered     *)
(* with the start offset of the first start event that refers to it.       *)
RECURSIVE SynthDefsToOffsets(_, _, _)
SynthDefsToOffsets(ss, simultaneities, seen) ==
    IF simultaneities = << >> THEN seen
    ELSE
      LET offset == Head(simultaneities)
          start_events == {i \in 1..Len(ss) : ss[i].start_offset = offset}
          fresh == {ss[i].synthdef : i \in start_events} \ DOMAIN seen
      IN SynthDefsToOffsets(ss, Tail(simultaneities),
             seen @@ [synthdef \in fresh |-> offset])

(* SynthDef.anonymous_name, the sort key of the synthdefs of one request:  *)
(* the synthdefs are numbered in the order of their anonymous names.       *)
AnonymousName(synthdef) == << synthdef >>

(* SortSynthDefs with the sorted() call left out.                          *)
SortSynthDefs_unsorted(synthdefs) == synthdefs

(* sorted(synthdefs, key=lambda x: x.anonymous_name)                       *)
SortSynthDefs(synthdefs) ==
    Permute(synthdefs, SortedPositions(
        [n \in 1..Len(synthdefs) |-> AnonymousName(synthdefs[n])]))

(* The second and third loop of _collect_synthdef_requests.  hash_order is *)
(* the order in which the dictionary synthdefs_to_offsets hands out its    *)
(* keys.                                                                   *)
SynthDefRequests(synthdefs_to_offsets, hash_order) ==
    [offset \in {synthdefs_to_offsets[d] : d \in DOMAIN synthdefs_to_offsets} |->
        << Request("SynthDefReceiveRequest",
               SortSynthDefs(SelectSeq(hash_order, LAMBDA d :
                   /\ d \in DOMAIN synthdefs_to_offsets
                   /\ synthdefs_to_offsets[d] = offset))) >>]

(* Session._collect_synthdef_requests                                      *)
CollectSynthDefRequests(sess, mapping, hash_order) ==
    ExtendAll(mapping,
        SynthDefRequests(
            SynthDefsToOffsets(sess.synths, Simultaneities(sess.synths),
                               [x \in {} |-> 0]),
            hash_order))

(* Synth._collect_requests: the synth's own requests by offset: its        *)
(* creation at the start offset, its overrides at their offsets, its       *)
(* release at a finite stop offset.                                        *)
SynthCollectRequests(synth, node_id) ==
    LET At(offset, kind, type) ==
            IF \E e \in synth.events : e[1] = offset /\ e[2] = kind
            THEN LET e == CHOOSE e \in synth.events :
                              e[1] = offset /\ e[2] = kind
                 IN << Request(type, << node_id, e[3] >>) >>
            ELSE << >>
    IN [offset \in {synth.start_offset}
            \cup {e[1] : e \in synth.events}
            \cup (IF IsFinite(synth.stop_offset) THEN {synth.stop_offset}
                  ELSE {}) |->
           (IF offset = synth.start_offset
            THEN << Request("SynthNewRequest",
                        << synth.synthdef, node_id, 0, 0 >>
                        \o synth.synth_kwargs) >>
            ELSE << >>)
           \o At(offset, "map_a", "NodeMapToAudioBusRequest")
           \o At(offset, "map_c", "NodeMapToControlBusRequest")
           \o At(offset, "set", "NodeSetRequest")
           \o (IF offset = synth.stop_offset /\ IsFinite(synth.stop_offset)
               THEN << Request("NodeFreeRequest", << node_id >>) >>
               ELSE << >>)]

(* Comparator with a constant key: the synths stay in the order of the     *)
(* collection.                                                             *)
Comparator_constant(synth, node_id) == << >>

(* comparator = lambda x: (x._get_timespan(x), id_mapping[x])              *)
Comparator(synth, node_id) == TimespanKey(synth) \o << node_id >>

(* ExtendBySynths with `request_mapping[offset] = synth_requests` in place *)
(* of setdefault and extend: the requests of a synth replace what the      *)
(* offset held.                                                            *)
ExtendBySynths_overwriting(mapping, requests) ==
    LET offsets == UNION {DOMAIN requests[r] : r \in 1..Len(requests)}
        Last(offset) ==
            CHOOSE r \in 1..Len(requests) :
                /\ offset \in DOMAIN requests[r]
                /\ \A q \in (r + 1)..Len(requests) :
                       offset \notin DOMAIN requests[q]
    IN [offset \in DOMAIN mapping \cup offsets |->
           IF offset \in offsets THEN requests[Last(offset)][offset]
           ELSE mapping[offset]]

(* The loop of _collect_synth_requests over the requests of the sorted     *)
(* synths.                                                                 *)
ExtendBySynths(mapping, requests) ==
    ExtendAll(mapping,
        [offset \in UNION {DOMAIN requests[r] : r \in 1..Len(requests)} |->
            ConcatAll([r \in 1..Len(requests) |->
                IF offset \in DOMAIN requests[r] THEN requests[r][offset]
                ELSE << >>])])

(* Session._collect_synth_requests                                         *)
CollectSynthRequests(sess, mapping, idm) ==
    LET Requests(order) ==
            [r \in 1..Len(order) |->
                SynthCollectRequests(sess.synths[order[r]],
                                     idm[<< "synth", order[r] >>])]
    IN ExtendBySynths(mapping,
           Requests(SortedPositions(
               [i \in 1..Len(sess.synths) |->
                   Comparator(sess.synths[i], idm[<< "synth", i >>])])))

----------------------------------------------------------------------------
(* Bundles.                                                                *)

(* PrioritizedRequestTypes with SynthNewRequest moved to the front.        *)
PrioritizedRequestTypes_synthNewFirst ==
    << "SynthNewRequest", "SynthDefReceiveRequest", "ControlBusSetRequest",
       "GroupNewRequest", "NodeMapToAudioBusRequest",
       "NodeMapToControlBusRequest", "NodeSetRequest" >>

(* PrioritizedRequestTypes without NodeSetRequest.                         *)
PrioritizedRequestTypes_noNodeSet ==
    << "SynthDefReceiveRequest", "ControlBusSetRequest", "GroupNewRequest",
       "SynthNewRequest", "NodeMapToAudioBusRequest",
       "NodeMapToControlBusRequest" >>

(* Session._prioritized_request_types                                      *)
PrioritizedRequestTypes ==
    << "SynthDefReceiveRequest", "ControlBusSetRequest", "GroupNewRequest",
       "SynthNewRequest", "NodeMapToAudioBusRequest",
       "NodeMapToControlBusRequest", "NodeSetRequest" >>

(* Request.to_osc_message(with_textual_osc_command=True): the OSC address  *)
(* of the request type, then the arguments.                                *)
OscAddress(type) ==
    CASE type = "SynthDefReceiveRequest" -> "/d_recv"
      [] type = "ControlBusSetRequest" -> "/c_set"
      [] type = "GroupNewRequest" -> "/g_new"
      [] type = "SynthNewRequest" -> "/s_new"
      [] type = "NodeMapToAudioBusRequest" -> "/n_mapa"
      [] type = "NodeMapToControlBusRequest" -> "/n_map"
      [] type = "NodeSetRequest" -> "/n_set"
      [] type = "NodeFreeRequest" -> "/n_free"

OscMessage(address, contents) == [ address |-> address, contents |-> contents ]
ToOscMessage(request) == OscMessage(OscAddress(request.type), request.args)
OscBundle(timestamp, contents) ==
    [ timestamp |-> timestamp, contents |-> contents ]

OfType(requests, type) == SelectSeq(requests, LAMBDA request : request.type = type)

(* MergedFree without the merge: one message for every NodeFreeRequest.    *)
MergedFree_unmerged(frees) ==
    [n \in 1..Len(frees) |-> ToOscMessage(frees[n])]

(* The tail of _process_requests: the node IDs of all NodeFreeRequests go  *)
(* into one request.                                                       *)
MergedFree(frees) ==
    IF frees = << >> THEN << >>
    ELSE << ToOscMessage(Request("NodeFreeRequest",
                ConcatAll([n \in 1..Len(frees) |-> frees[n].args]))) >>

(* Session._process_requests                                               *)
ProcessRequests(offset, requests) ==
    OscBundle(offset,
        ConcatAll([p \in 1..Len(PrioritizedRequestTypes) |->
            LET Messages(of_type) ==
                    [n \in 1..Len(of_type) |-> ToOscMessage(of_type[n])]
            IN Messages(OfType(requests, PrioritizedRequestTypes[p]))])
        \o MergedFree(OfType(requests, "NodeFreeRequest")))

(* ProcessTerminalEvent with the comparison turned around.                 *)
ProcessTerminalEvent_inverted(final_offset, ts) ==
    IF /\ ts.given
       /\ ts.stop_offset # Infinity
       /\ final_offset > ts.stop_offset
    THEN << OscBundle(ts.stop_offset, << OscMessage("0", << >>) >>) >>
    ELSE << >>

(* ProcessTerminalEvent without the test final_offset < stop_offset.       *)
ProcessTerminalEvent_always(final_offset, ts) ==
    IF /\ ts.given
       /\ ts.stop_offset # Infinity
    THEN << OscBundle(ts.stop_offset, << OscMessage("0", << >>) >>) >>
    ELSE << >>

(* Session._process_terminal_event                                         *)
ProcessTerminalEvent(final_offset, ts) ==
    IF /\ ts.given
       /\ ts.stop_offset # Infinity
       /\ final_offset < ts.stop_offset
    THEN << OscBundle(ts.stop_offset, << OscMessage("0", << >>) >>) >>
    ELSE << >>

----------------------------------------------------------------------------
(* Masking.                                                                *)

Min(a, b) == IF a < b THEN a ELSE b
Max(a, b) == IF a < b THEN b ELSE a

(* Timespan.intersects_timespan                                            *)
Intersects(synth, ts) ==
    /\ ts.start_offset < synth.stop_offset
    /\ synth.start_offset < ts.stop_offset

(* Timespan.__and__: the part of the synth inside ts.                      *)
Clip(synth, ts) ==
    [synth EXCEPT !.start_offset = Max(@, ts.start_offset),
                  !.stop_offset = Min(@, ts.stop_offset)]

(* Timespan.translate: infinite offsets stay infinite.                     *)
Translate(synth, translation) ==
    [synth EXCEPT
        !.start_offset = IF IsFinite(@) THEN @ + translation ELSE @,
        !.stop_offset = IF IsFinite(@) THEN @ + translation ELSE @]

TranslateAll(ss, translation) ==
    [n \in 1..Len(ss) |-> Translate(ss[n], translation)]

(* TimespanInventory(self._synths) & timespan: the clipped parts of the    *)
(* intersecting synths, sorted.                                            *)
MaskedSynths(ss, ts) ==
    LET Clipped(kept) == [n \in 1..Len(kept) |-> Clip(ss[kept[n]], ts)]
        Sorted(clipped) ==
            Permute(clipped, SortedPositions(
                [n \in 1..Len(clipped) |-> TimespanKey(clipped[n])]))
    IN Sorted(Clipped(SelectSeq(IterateTimespans(ss),
                                LAMBDA i : Intersects(ss[i], ts))))

(* TimespanInventory.timespan.start_offset: the least start offset.        *)
OriginalStart(ss) ==
    CHOOSE x \in {ss[i].start_offset : i \in 1..Len(ss)} :
        \A i \in 1..Len(ss) : x <= ss[i].start_offset

(* Session._process_timespan_mask                                          *)
ProcessTimespanMask(self, ts) ==
    IF ts.given /\ self.synths # << >>
    THEN [ NewSession(DefaultInputCount, DefaultOutputCount) EXCEPT
             !.synths =
                 IF IsFinite(ts.start_offset)
                 THEN TranslateAll(MaskedSynths(self.synths, ts),
                          ts.start_offset - OriginalStart(self.synths))
                 ELSE MaskedSynths(self.synths, ts) ]
    ELSE self

----------------------------------------------------------------------------
(* Session.to_osc_bundles                                                  *)

(* The loop over sorted(request_mapping.items()) and the terminal event.   *)
BundlesAt(mapping, offsets, ts) ==
    [n \in 1..Len(offsets) |->
        ProcessRequests(offsets[n], mapping[offsets[n]])]
    \o ProcessTerminalEvent(offsets[Len(offsets)], ts)

BundlesOf(mapping, ts) ==
    BundlesAt(mapping, Ascending(DOMAIN mapping), ts)

RequestMapping(sess, idm, hash_order) ==
    CollectSynthRequests(sess,
        CollectSynthDefRequests(sess,
            CollectBusRequests(sess, EmptyMapping, idm),
            hash_order),
        idm)

(* Returned without the raise: an empty request_mapping gives an empty     *)
(* list.                                                                   *)
Returned_noRaise(mapping, ts) ==
    IF mapping = EmptyMapping
    THEN /\ raised' = ""
         /\ osc_bundles' = << >>
    ELSE /\ raised' = ""
         /\ osc_bundles' = BundlesOf(mapping, ts)

(* if not request_mapping: raise ValueError                                *)
Returned(mapping, ts) ==
    IF mapping = EmptyMapping
    THEN /\ raised' = "ValueError"
         /\ osc_bundles' = << >>
    ELSE /\ raised' = ""
         /\ osc_bundles' = BundlesOf(mapping, ts)

HashOrders ==
    {order \in [1..NumSynthDefs -> SynthDefs] :
        \A a, b \in 1..NumSynthDefs : a # b => order[a] # order[b]}

(* The session that to_osc_bundles was called on, after                    *)
(* _process_timespan_mask: the mask and the translation act on the         *)
(* inventory made from self._synths and the result goes into a new         *)
(* session, so self is as it was.                                          *)
SelfAfterMask_inPlace(self, ts) ==
    [ self EXCEPT !.synths = ProcessTimespanMask(self, ts).synths ]

SelfAfterMask(self, ts) == self

(* The body of to_osc_bundles, which to_datagram calls first.              *)
CallToOscBundles(ts, hash_order, max_calls) ==
    /\ calls < max_calls
    /\ calls > 0 => ts = timespan
    /\ session' = ProcessTimespanMask(Self, ts)
    /\ id_mapping' = BuildBusIdMapping(session') @@ BuildSynthIdMapping(session')
    /\ request_mapping' = RequestMapping(session', id_mapping', hash_order)
    /\ Returned(request_mapping', ts)
    /\ calls' = calls + 1
    /\ timespan' = ts
    /\ previous' = IF calls > 0 /\ raised = "" THEN << osc_bundles >> ELSE << >>
    /\ synths' = SelfAfterMask(Self, ts).synths
    /\ buses' = SelfAfterMask(Self, ts).buses
    /\ input_count' = SelfAfterMask(Self, ts).input_count
    /\ output_count' = SelfAfterMask(Self, ts).output_count
    /\ unchanged_outside_session

to_osc_bundles(ts, hash_order, max_calls) ==
    /\ CallToOscBundles(ts, hash_order, max_calls)
    /\ method' = "to_osc_bundles"
    /\ datagram' = << >>

----------------------------------------------------------------------------
(* Session.to_datagram                                                     *)

Pow256(k) == IF k = 0 THEN 1 ELSE IF k = 1 THEN 256
             ELSE IF k = 2 THEN 65536 ELSE 16777216

(* struct.pack('<i', n): the four bytes of n, the lowest first.            *)
StructPack_littleEndian(n) ==
    [k \in 1..4 |-> (n \div Pow256(k - 1)) % 256]

(* struct.pack('>i', n): the four bytes of n, the highest first.           *)
StructPack(n) ==
    [k \in 1..4 |-> (n \div Pow256(4 - k)) % 256]

(* An OSC integer: 32 bits, the highest byte first.                        *)
EncodeInteger(n) == [k \in 1..4 |-> (n \div Pow256(4 - k)) % 256]

(* An OSC string: the characters, then one to four null bytes up to a      *)
(* multiple of four.                                                       *)
EncodeString(characters) ==
    characters \o [k \in 1..(4 - (Len(characters) % 4)) |-> 0]

(* The characters of the OSC addresses.                                    *)
AddressCharacters(address) ==
    CASE address = "/d_recv" -> << 47, 100, 95, 114, 101, 99, 118 >>
      [] address = "/c_set" -> << 47, 99, 95, 115, 101, 116 >>
      [] address = "/g_new" -> << 47, 103, 95, 110, 101, 119 >>
      [] address = "/s_new" -> << 47, 115, 95, 110, 101, 119 >>
      [] address = "/n_mapa" -> << 47, 110, 95, 109, 97, 112, 97 >>
      [] address = "/n_map" -> << 47, 110, 95, 109, 97, 112 >>
      [] address = "/n_set" -> << 47, 110, 95, 115, 101, 116 >>
      [] address = "/n_free" -> << 47, 110, 95, 102, 114, 101, 101 >>

(* OscMessage.to_datagram: the address (a string, or the integer 0 of the  *)
(* terminal message), the type tags ",i...i" and the arguments as 32-bit   *)
(* integers.                                                               *)
MessageDatagram(message) ==
    (IF message.address = "0" THEN EncodeInteger(0)
     ELSE EncodeString(AddressCharacters(message.address)))
    \o EncodeString(<< 44 >> \o [k \in 1..Len(message.contents) |-> 105])
    \o ConcatAll([k \in 1..Len(message.contents) |->
           EncodeInteger(message.contents[k])])

(* OscBundle.to_datagram(realtime=False): "#bundle", the timestamp as a    *)
(* time tag of seconds and fraction, then every message behind its size.   *)
BundleDatagram(bundle) ==
    EncodeString(<< 35, 98, 117, 110, 100, 108, 101 >>)
    \o EncodeInteger(bundle.timestamp) \o EncodeInteger(0)
    \o ConcatAll([k \in 1..Len(bundle.contents) |->
           LET Sized(encoded) == EncodeInteger(Len(encoded)) \o encoded
           IN Sized(MessageDatagram(bundle.contents[k]))])

(* The loop of to_datagram and the join of its parts.                      *)
JoinDatagrams(bundles) ==
    ConcatAll([k \in 1..Len(bundles) |->
        LET Parts(encoded) == StructPack(Len(encoded)) \o encoded
        IN Parts(BundleDatagram(bundles[k]))])

(* to_datagram(timespan): an exception of to_osc_bundles passes through.   *)
to_datagram(ts, hash_order, max_calls) ==
    /\ CallToOscBundles(ts, hash_order, max_calls)
    /\ method' = "to_datagram"
    /\ datagram' = IF raised' = "" THEN JoinDatagrams(osc_bundles')
                   ELSE << >>

(* The intervals << start_offset, stop_offset >> of the synths added.      *)
Intervals ==
    {interval \in Offsets \X (Offsets \cup {Infinity}) :
        interval[1] <= interval[2]}

(* The timespans to_osc_bundles is called with.                            *)
Timespans ==
    { NoTimespan, Timespan(1, MaxOffset + 1),
      Timespan(NegativeInfinity, MaxOffset), Timespan(0, Infinity) }

(* Sessions of synths only, compiled up to MaxCalls times.                 *)
Next ==
    \/ \E interval \in Intervals, synthdef \in SynthDefs :
          add_synth(interval[1], interval[2], synthdef, << >>, MaxSynths)
    \/ \E ts \in Timespans, hash_order \in HashOrders :
          to_osc_bundles(ts, hash_order, MaxCalls)

Spec == Init /\ [][Next]_vars

(* Sessions of synths, overrides and a control bus, compiled once.         *)
NextMix ==
    \/ \E interval \in Intervals, synthdef \in SynthDefs :
          add_synth(interval[1], interval[2], synthdef, << >>, MixSynths)
    \/ \E i \in 1..MixSynths, offset \in Offsets, kind \in EventKinds,
          value \in 1..MixValues :
          at_set(i, offset, kind, value, MixSynthEvents)
    \/ add_bus(CONTROL, MixBuses)
    \/ \E i \in 1..MixBuses, offset \in Offsets :
          bus_set(i, offset, MixBusEvents)
    \/ \E ts \in Timespans, hash_order \in HashOrders :
          to_osc_bundles(ts, hash_order, 1)

SpecMix == Init /\ [][NextMix]_vars

(* Sessions of buses and bus groups of both rates with any channel counts, *)
(* and one synth, compiled once.                                           *)
NextBus ==
    \/ add_synth(0, MaxOffset, 1, << >>, BusSynths)
    \/ \E calculation_rate \in {AUDIO, CONTROL} :
          add_bus(calculation_rate, MaxBuses)
    \/ \E bus_count \in 1..MaxGroupSize, calculation_rate \in {AUDIO, CONTROL} :
          add_bus_group(bus_count, calculation_rate, MaxBuses)
    \/ \E i \in 1..MaxBuses, offset \in 0..(MaxOffset - 1) :
          bus_set(i, offset, MaxBusEvents)
    \/ \E ts \in {NoTimespan, Timespan(1, MaxOffset + 1)}, hash_order \in HashOrders :
          to_osc_bundles(ts, hash_order, 1)

SpecBus == InitBus /\ [][NextBus]_vars

(* Sessions of synths and buses of both rates, compiled once by either     *)
(* method.                                                                 *)
NextDatagram ==
    \/ \E interval \in Intervals, synthdef \in SynthDefs :
          add_synth(interval[1], interval[2], synthdef, << >>, DatagramSynths)
    \/ \E calculation_rate \in {AUDIO, CONTROL} :
          add_bus(calculation_rate, DatagramBuses)
    \/ \E i \in 1..DatagramBuses, offset \in Offsets :
          bus_set(i, offset, DatagramBusEvents)
    \/ \E ts \in Timespans, hash_order \in HashOrders :
          to_osc_bundles(ts, hash_order, 1)
    \/ \E ts \in Timespans, hash_order \in HashOrders :
          to_datagram(ts, hash_order, 1)

SpecDatagram == Init /\ [][NextDatagram]_vars

(* Sessions of synths with and without a setting of their own, and         *)
(* overrides of it, compiled once.                                         *)
NextOverride ==
    \/ \E interval \in Intervals, synth_kwargs \in Settings :
          add_synth(interval[1], interval[2], 1, synth_kwargs,
                    OverrideSynths)
    \/ \E i \in 1..OverrideSynths, offset \in Offsets,
          value \in 1..MaxValue :
          at_set(i, offset, "set", value, OverrideEvents)
    \/ \E ts \in {NoTimespan, Timespan(1, MaxOffset + 1)},
          hash_order \in HashOrders :
          to_osc_bundles(ts, hash_order, 1)

SpecOverride == Init /\ [][NextOverride]_vars

(* The offsets add_synth is called with, those below zero among them.      *)
AnyOffsets == (0 - MaxNegative)..MaxOffset

(* Sessions built by add_synth calls with any offsets, in any order of     *)
(* start and stop.                                                         *)
NextSchedule ==
    \E start_offset \in AnyOffsets, stop_offset \in AnyOffsets \cup {Infinity},
       synthdef \in SynthDefs :
       add_synth(start_offset, stop_offset, synthdef, << >>, ScheduleSynths)

SpecSchedule == Init /\ [][NextSchedule]_vars
----------------------------------------------------------------------------
(* Properties.  They speak of the last to_osc_bundles call that returned:  *)
(* of its result osc_bundles, of the session it compiled (`session`: the   *)
(* session itself, or its masked copy when a timespan was given) and of    *)
(* the identifiers it assigned (id_mapping).                               *)

Compiled == calls > 0 /\ raised = ""

Positions(seq) == 1..Len(seq)
Synths == Positions(session.synths)
SynthId(i) == id_mapping[<< "synth", i >>]
BusId(i) == id_mapping[<< "bus", i >>]
Messages(bundle, address) ==
    {n \in Positions(bundle.contents) : bundle.contents[n].address = address}
Count(seq, x) == Cardinality({n \in Positions(seq) : seq[n] = x})

(* The command types in the order of their priority.                       *)
CommandRank(address) ==
    CASE address = "/d_recv" -> 1
      [] address = "/c_set" -> 2
      [] address = "/g_new" -> 3
      [] address = "/s_new" -> 4
      [] address = "/n_mapa" -> 5
      [] address = "/n_map" -> 6
      [] address = "/n_set" -> 7
      [] address = "/n_free" -> 8
      [] OTHER -> 0

(* C1: in every bundle the messages appear in the priority order           *)
(* definition-receive, control-bus-set, group-new, synth-new,              *)
(* node-map-to-audio-bus, node-map-to-control-bus, node-set, node-free: no *)
(* message of a later type precedes one of an earlier type; so a           *)
(* definition-receive precedes every synth-new of its bundle and a         *)
(* node-free message is the last message of its bundle.                    *)
C1_PriorityOrder ==
    Compiled =>
        \A b \in Positions(osc_bundles) :
            LET contents == osc_bundles[b].contents
            IN /\ \A m, n \in Positions(contents) :
                      (/\ m < n
                       /\ CommandRank(contents[m].address) > 0
                       /\ CommandRank(contents[n].address) > 0)
                      => CommandRank(contents[m].address)
                             <= CommandRank(contents[n].address)
               /\ \A m \in Messages(osc_bundles[b], "/d_recv"),
                     n \in Messages(osc_bundles[b], "/s_new") : m < n
               /\ \A n \in Messages(osc_bundles[b], "/n_free") :
                      n = Len(contents)

C1_Witness ==
    /\ Compiled
    /\ \E b \in Positions(osc_bundles) :
           /\ Messages(osc_bundles[b], "/d_recv") # {}
           /\ Messages(osc_bundles[b], "/c_set") # {}
           /\ Messages(osc_bundles[b], "/s_new") # {}
           /\ Messages(osc_bundles[b], "/n_set") # {}
           /\ Messages(osc_bundles[b], "/n_free") # {}

(* The definition-receive messages of the whole result that carry a        *)
(* synthdef, as (bundle, message) positions.                               *)
Receives(synthdef) ==
    UNION {{<< b, n >> : n \in
               {m \in Messages(osc_bundles[b], "/d_recv") :
                   synthdef \in SeqToSet(osc_bundles[b].contents[m].contents)}} :
           b \in Positions(osc_bundles)}

FirstStart(synthdef) ==
    CHOOSE t \in {session.synths[i].start_offset : i \in Synths} :
        /\ \E i \in Synths : /\ session.synths[i].synthdef = synthdef
                             /\ session.synths[i].start_offset = t
        /\ \A i \in Synths : session.synths[i].synthdef = synthdef
                                 => t <= session.synths[i].start_offset

(* C2: every synthdef that a synth of the compiled session refers to is    *)
(* carried by exactly one definition-receive message of the whole result,  *)
(* once, in the bundle whose timestamp is the least start offset of the    *)
(* synths that refer to it; so every synth-new comes, in its bundle or in  *)
(* a later one, after the receive of its synthdef.                         *)
C2_SynthDefReceivedOnce ==
    Compiled =>
        /\ \A d \in {session.synths[i].synthdef : i \in Synths} :
               /\ Cardinality(Receives(d)) = 1
               /\ \A bn \in Receives(d) :
                      /\ Count(osc_bundles[bn[1]].contents[bn[2]].contents, d) = 1
                      /\ osc_bundles[bn[1]].timestamp = FirstStart(d)
        /\ \A b \in Positions(osc_bundles) :
               \A n \in Messages(osc_bundles[b], "/s_new") :
                   \E bn \in Receives(osc_bundles[b].contents[n].contents[1]) :
                       \/ bn[1] < b
                       \/ bn[1] = b /\ bn[2] < n

C2_Witness ==
    /\ Compiled
    /\ \E i, j, k \in Synths :
           /\ session.synths[i].synthdef = session.synths[j].synthdef
           /\ session.synths[i].start_offset < session.synths[j].start_offset
           /\ session.synths[k].synthdef # session.synths[i].synthdef
           /\ session.synths[k].start_offset > session.synths[i].start_offset

(* The offsets at which the compiled session schedules a command: the      *)
(* value changes of its control buses, the starts, overrides and finite    *)
(* stops of its synths.                                                    *)
ScheduledOffsets ==
    UNION {{session.buses[i].events[e][1] : e \in Positions(session.buses[i].events)} :
              i \in {j \in Positions(session.buses) :
                        session.buses[j].calculation_rate = CONTROL}}
    \cup {session.synths[i].start_offset : i \in Synths}
    \cup {session.synths[i].stop_offset : i \in
             {j \in Synths : IsFinite(session.synths[j].stop_offset)}}
    \cup UNION {{e[1] : e \in session.synths[i].events} : i \in Synths}

IsTerminal(bundle) ==
    Len(bundle.contents) = 1 /\ bundle.contents[1].address = "0"

(* C3: the timestamps of the result are strictly increasing; there is      *)
(* exactly one bundle for every offset at which a command is scheduled;    *)
(* a terminal bundle comes last, with a timestamp greater than every       *)
(* other.                                                                  *)
C3_StrictlyIncreasing ==
    Compiled =>
        /\ \A a, b \in Positions(osc_bundles) :
               a < b => osc_bundles[a].timestamp < osc_bundles[b].timestamp
        /\ {osc_bundles[b].timestamp :
               b \in {a \in Positions(osc_bundles) : ~IsTerminal(osc_bundles[a])}}
           = ScheduledOffsets
        /\ \A b \in Positions(osc_bundles) :
               IsTerminal(osc_bundles[b]) => b = Len(osc_bundles)

C3_Witness ==
    /\ Compiled
    /\ Len(osc_bundles) >= 3
    /\ IsTerminal(osc_bundles[Len(osc_bundles)])
    /\ IsFinite(timespan.start_offset)

(* C4: two to_osc_bundles calls on an unchanged session with the same      *)
(* timespan return the same list of bundles, whatever order the            *)
(* dictionaries of the two calls hand out their keys in.                   *)
C4_Deterministic ==
    (Compiled /\ previous # << >>) => previous[1] = osc_bundles

C4_Witness ==
    /\ Compiled
    /\ previous # << >>
    /\ \E b \in Positions(osc_bundles) :
           \E n \in Messages(osc_bundles[b], "/d_recv") :
               Len(osc_bundles[b].contents[n].contents) = 2

(* The synths of the compiled session stand in the order in which they     *)
(* were added to it; for a call without a timespan that is the order of    *)
(* the add_synth calls.                                                    *)
Start(i) == session.synths[i].start_offset
Stop(i) == session.synths[i].stop_offset
SynthOf(node_id) == CHOOSE i \in Synths : SynthId(i) = node_id

NodeIdsOf(message) ==
    CASE message.address = "/s_new" -> {message.contents[2]}
      [] message.address \in {"/n_set", "/n_map", "/n_mapa"} ->
             {message.contents[1]}
      [] message.address = "/n_free" -> SeqToSet(message.contents)
      [] OTHER -> {}

(* C6: in one to_osc_bundles call every synth of the compiled session has  *)
(* one node ID, distinct synths have distinct node IDs, the node IDs are   *)
(* the consecutive numbers from 1000 on, and every node ID that a          *)
(* synth-new, node-set, node-map or node-free message names is the node ID *)
(* of exactly one synth.                                                   *)
C6_NodeIdsUnique ==
    Compiled =>
        /\ \A i \in Synths : << "synth", i >> \in DOMAIN id_mapping
        /\ \A i, j \in Synths : i # j => SynthId(i) # SynthId(j)
        /\ {SynthId(i) : i \in Synths}
               = FirstNodeId..(FirstNodeId + Len(session.synths) - 1)
        /\ \A b \in Positions(osc_bundles) :
               \A n \in Positions(osc_bundles[b].contents) :
                   \A node_id \in NodeIdsOf(osc_bundles[b].contents[n]) :
                       Cardinality({i \in Synths : SynthId(i) = node_id}) = 1

C6_Witness ==
    /\ Compiled
    /\ Len(session.synths) >= 2
    /\ \E b \in Positions(osc_bundles) :
           Messages(osc_bundles[b], "/n_set") # {}
    /\ \E b \in Positions(osc_bundles) :
           Messages(osc_bundles[b], "/n_free") # {}

Stopping(offset) == {i \in Synths : Stop(i) = offset}

(* C8: every bundle holds at most one node-free message; the message names *)
(* the node IDs of exactly the synths whose stop offset is the bundle's    *)
(* timestamp, each once; a bundle at whose timestamp a synth stops holds   *)
(* the message.                                                            *)
C8_OneNodeFree ==
    Compiled =>
        \A b \in Positions(osc_bundles) :
            LET bundle == osc_bundles[b]
            IN /\ Cardinality(Messages(bundle, "/n_free")) <= 1
               /\ \A n \in Messages(bundle, "/n_free") :
                      /\ SeqToSet(bundle.contents[n].contents)
                             = {SynthId(i) : i \in Stopping(bundle.timestamp)}
                      /\ \A i \in Stopping(bundle.timestamp) :
                             Count(bundle.contents[n].contents, SynthId(i)) = 1
               /\ Stopping(bundle.timestamp) # {}
                      => Messages(bundle, "/n_free") # {}

C8_Witness ==
    /\ Compiled
    /\ \E b \in Positions(osc_bundles) :
           \E n \in Messages(osc_bundles[b], "/n_free") :
               /\ Len(osc_bundles[b].contents[n].contents) >= 2
               /\ n > 1

(* The control buses of the compiled session with a value change recorded  *)
(* at an offset, and the value of the last such change of a bus.           *)
Buses == Positions(session.buses)
ChangedAt(offset) ==
    {i \in Buses :
        /\ session.buses[i].calculation_rate = CONTROL
        /\ \E e \in Positions(session.buses[i].events) :
               session.buses[i].events[e][1] = offset}
LastValue(i, offset) ==
    LET events == session.buses[i].events
    IN events[CHOOSE e \in Positions(events) :
           /\ events[e][1] = offset
           /\ \A f \in Positions(events) : events[f][1] = offset => f <= e][2]

(* C9: every bundle holds at most one control-bus-set message; the message *)
(* carries one (index, value) pair for every control bus with a value      *)
(* change recorded at the bundle's timestamp, and no other pair; the pairs *)
(* stand in ascending order of the bus index; a bus of audio rate          *)
(* contributes no pair.                                                    *)
C9_OneControlBusSet ==
    Compiled =>
        \A b \in Positions(osc_bundles) :
            LET bundle == osc_bundles[b]
                changed == ChangedAt(bundle.timestamp)
            IN /\ Cardinality(Messages(bundle, "/c_set")) <= 1
               /\ changed # {} => Messages(bundle, "/c_set") # {}
               /\ \A n \in Messages(bundle, "/c_set") :
                      LET pairs == bundle.contents[n].contents
                      IN /\ Len(pairs) = 2 * Cardinality(changed)
                         /\ \A i \in changed :
                                \E k \in 1..Cardinality(changed) :
                                    /\ pairs[2 * k - 1] = BusId(i)
                                    /\ pairs[2 * k]
                                           = LastValue(i, bundle.timestamp)
                         /\ \A k \in 1..(Cardinality(changed) - 1) :
                                pairs[2 * k - 1] < pairs[2 * k + 1]

C9_Witness ==
    /\ Compiled
    /\ \E i \in Buses : /\ session.buses[i].calculation_rate = AUDIO
                        /\ session.buses[i].events # << >>
    /\ \E b \in Positions(osc_bundles) :
           \E n \in Messages(osc_bundles[b], "/c_set") :
               Len(osc_bundles[b].contents[n].contents) >= 4

(* The compiled session without its audio buses and without input and      *)
(* output channels.                                                        *)
ControlOnly ==
    [ session EXCEPT
        !.buses = SelectSeq(session.buses,
                      LAMBDA bus : bus.calculation_rate = CONTROL),
        !.input_count = 0,
        !.output_count = 0 ]
ControlRank(i) ==
    Cardinality({j \in 1..i : session.buses[j].calculation_rate = CONTROL})

(* C10: the output buses have the addresses 0..output_count-1, the input   *)
(* buses the addresses output_count..output_count+input_count-1, every     *)
(* other audio bus has an address >= input_count+output_count; the         *)
(* addresses of the control buses do not depend on the audio buses or on   *)
(* the channel counts: they are the addresses the control buses get in a   *)
(* session without audio buses and without input and output channels.      *)
C10_BusAddresses ==
    calls > 0 =>
        /\ \A k \in 1..session.output_count :
               id_mapping[<< "out", k >>] = k - 1
        /\ \A k \in 1..session.input_count :
               id_mapping[<< "in", k >>] = session.output_count + k - 1
        /\ \A i \in Buses :
               session.buses[i].calculation_rate = AUDIO
                   => BusId(i) >= session.input_count + session.output_count
        /\ \A i \in Buses :
               session.buses[i].calculation_rate = CONTROL
                   => BusId(i)
                          = BuildBusIdMapping(ControlOnly)[<< "bus", ControlRank(i) >>]

C10_Witness ==
    /\ calls > 0
    /\ session.input_count > 0
    /\ session.output_count > 0
    /\ \E i, j \in Buses :
           /\ i < j
           /\ session.buses[i].calculation_rate = AUDIO
           /\ session.buses[j].calculation_rate = CONTROL
           /\ session.buses[j].bus_group # 0

(* The bus groups of the compiled session and their member buses, in the   *)
(* order of the group.                                                     *)
Groups == GroupsOf(session.buses)
Members(g) == GroupMembers(session.buses, g)
GroupRate(g) ==
    session.buses[CHOOSE i \in Members(g) : TRUE].calculation_rate
(* C11: for every bus group of N buses one block of N addresses is         *)
(* allocated, by a single allocation for the whole group: as many blocks   *)
(* are allocated as there are groups and buses outside groups; the address *)
(* recorded for the group is the first address of its block, and the N     *)
(* member buses have the N addresses of the block.                         *)
C11_OneBlockPerGroup ==
    Compiled =>
        LET Holds(blocks) ==
                /\ Len(blocks)
                       = Cardinality(Groups)
                         + Cardinality({i \in Buses :
                                           session.buses[i].bus_group = 0})
                /\ \A g \in Groups :
                       /\ \E n \in Positions(blocks) :
                              /\ blocks[n].calculation_rate = GroupRate(g)
                              /\ blocks[n].block_id
                                     = id_mapping[<< "group", g >>]
                              /\ blocks[n].size = Cardinality(Members(g))
                       /\ {BusId(i) : i \in Members(g)}
                              = id_mapping[<< "group", g >>]
                                ..(id_mapping[<< "group", g >>]
                                   + Cardinality(Members(g)) - 1)
        IN Holds(AllocatedBlocks(session))

(* The addresses of a block.                                               *)
AddressesOf(block) == block.block_id..(block.block_id + block.size - 1)

(* C12: no two buses of the same calculation rate have the same address;   *)
(* the blocks allocated at one rate do not overlap; no audio bus of the    *)
(* session has the address of an input or output bus.                      *)
C12_NoSharedAddress ==
    calls > 0 =>
        LET Disjoint(blocks) ==
                \A m, n \in Positions(blocks) :
                    (/\ m # n
                     /\ blocks[m].calculation_rate = blocks[n].calculation_rate)
                    => AddressesOf(blocks[m]) \cap AddressesOf(blocks[n]) = {}
        IN /\ \A i, j \in Buses :
                  (/\ i # j
                   /\ session.buses[i].calculation_rate
                          = session.buses[j].calculation_rate)
                  => BusId(i) # BusId(j)
           /\ Disjoint(AllocatedBlocks(session))
           /\ \A i \in Buses :
                  session.buses[i].calculation_rate = AUDIO
                      => /\ \A k \in 1..session.output_count :
                                BusId(i) # id_mapping[<< "out", k >>]
                         /\ \A k \in 1..session.input_count :
                                BusId(i) # id_mapping[<< "in", k >>]

C12_Witness ==
    /\ calls > 0
    /\ session.input_count > 0
    /\ session.output_count > 0
    /\ \E i, j \in Buses :
           /\ i # j
           /\ session.buses[i].calculation_rate = AUDIO
           /\ session.buses[j].calculation_rate = AUDIO
           /\ session.buses[i].bus_group # 0
           /\ session.buses[j].bus_group = 0
    /\ \E i \in Buses : session.buses[i].calculation_rate = CONTROL

(* The synths of the session that to_osc_bundles was called on which reach *)
(* into the timespan of the call.                                          *)
Masked == {i \in Positions(synths) : Intersects(synths[i], timespan)}
BundlesWith(timestamp, address) ==
    {b \in Positions(osc_bundles) :
        /\ osc_bundles[b].timestamp = timestamp
        /\ Messages(osc_bundles[b], address) # {}}

(* C13: when the timespan of the call has a finite start offset a, the     *)
(* result is re-based to a: a synth that reaches into [a, b) and starts at *)
(* t >= a has its synth-new in the bundle with timestamp t - a, one that   *)
(* stops at a finite t <= b has its node-free in the bundle with timestamp *)
(* t - a, and no bundle has a timestamp below 0 or above b - a.            *)
C13_Rebased ==
    (Compiled /\ timespan.given /\ IsFinite(timespan.start_offset)) =>
        /\ \A i \in Masked :
               /\ timespan.start_offset <= synths[i].start_offset
                      => BundlesWith(synths[i].start_offset
                             - timespan.start_offset, "/s_new") # {}
               /\ (/\ IsFinite(synths[i].stop_offset)
                   /\ synths[i].stop_offset <= timespan.stop_offset)
                      => BundlesWith(synths[i].stop_offset
                             - timespan.start_offset, "/n_free") # {}
        /\ \A b \in Positions(osc_bundles) :
               /\ osc_bundles[b].timestamp >= 0
               /\ IsFinite(timespan.stop_offset)
                      => osc_bundles[b].timestamp
                             <= timespan.stop_offset - timespan.start_offset

(* The terminal bundles of the result, and the greatest timestamp of its   *)
(* other bundles.                                                          *)
Terminals == {b \in Positions(osc_bundles) : IsTerminal(osc_bundles[b])}
LastOffset ==
    CHOOSE t \in {osc_bundles[b].timestamp :
                     b \in Positions(osc_bundles) \ Terminals} :
        \A b \in Positions(osc_bundles) \ Terminals :
            osc_bundles[b].timestamp <= t
NaturalStop ==
    CHOOSE t \in {synths[i].stop_offset : i \in Positions(synths)} :
        \A i \in Positions(synths) : synths[i].stop_offset <= t

NoCommand ==
    /\ synths = << >>
    /\ \A i \in Positions(buses) :
           buses[i].calculation_rate = CONTROL => buses[i].events = << >>
SessionUnchanged ==
    /\ synths' = synths
    /\ buses' = buses
    /\ input_count' = input_count
    /\ output_count' = output_count

(* C15, as claimed: a call of to_osc_bundles or to_datagram on a session   *)
(* from which no command results raises EmptySessionError, returns neither *)
(* a list nor bytes, and leaves the session unchanged.                     *)
C15_RaisesEmptySessionError ==
    [][(calls' = calls + 1 /\ NoCommand)
           => /\ raised' = "EmptySessionError"
              /\ osc_bundles' = << >>
              /\ datagram' = << >>
              /\ SessionUnchanged]_vars

(* C15, amended: a call of to_osc_bundles or to_datagram on a session from *)
(* which no command results raises ValueError, returns neither a list nor  *)
(* bytes, and leaves the session unchanged.                                *)
C15_RaisesValueError ==
    [][(calls' = calls + 1 /\ NoCommand)
           => /\ raised' = "ValueError"
              /\ osc_bundles' = << >>
              /\ datagram' = << >>
              /\ SessionUnchanged]_vars

C15_Witness ==
    /\ calls > 0
    /\ method = "to_datagram"
    /\ raised = "ValueError"
    /\ NoCommand
    /\ \E i \in Positions(buses) :
           buses[i].calculation_rate = AUDIO /\ buses[i].events # << >>
    /\ \E i \in Positions(buses) : buses[i].calculation_rate = CONTROL

(* Reading a datagram back: the number that four bytes stand for, the      *)
(* highest first, and the records of a byte string, each behind its        *)
(* length; a length that runs over the end gives the record << -1 >>.      *)
BigEndian(bytes) ==
    ((bytes[1] * 256 + bytes[2]) * 256 + bytes[3]) * 256 + bytes[4]
RECURSIVE Records(_)
Records(bytes) ==
    IF bytes = << >> THEN << >>
    ELSE IF Len(bytes) < 4 \/ bytes[1] > 0 THEN << << -1 >> >>
    ELSE IF BigEndian(bytes) > Len(bytes) - 4 THEN << << -1 >> >>
    ELSE << SubSeq(bytes, 5, 4 + BigEndian(bytes)) >>
         \o Records(SubSeq(bytes, 5 + BigEndian(bytes), Len(bytes)))
RECURSIVE TotalLength(_)
TotalLength(bundles) ==
    IF bundles = << >> THEN 0
    ELSE 4 + Len(BundleDatagram(Head(bundles))) + TotalLength(Tail(bundles))

(* C16: the bytes that to_datagram returns are one record for every bundle *)
(* of to_osc_bundles, in the order of the bundles; a record is the length  *)
(* of the bundle's encoding as four bytes, the highest first, followed by  *)
(* the encoding; there are as many records as bundles, and the bytes are   *)
(* as many as the sum of 4 + the length of the encoding over the bundles.  *)
C16_LengthPrefixedRecords ==
    (Compiled /\ method = "to_datagram") =>
        LET Holds(records) ==
                /\ Len(records) = Len(osc_bundles)
                /\ \A k \in Positions(osc_bundles) :
                       records[k] = BundleDatagram(osc_bundles[k])
        IN /\ Holds(Records(datagram))
           /\ Len(datagram) = TotalLength(osc_bundles)

C16_Witness ==
    /\ Compiled
    /\ method = "to_datagram"
    /\ Len(osc_bundles) >= 3
    /\ \E a, b \in Positions(osc_bundles) :
           Len(BundleDatagram(osc_bundles[a]))
               # Len(BundleDatagram(osc_bundles[b]))

(* The messages of the result at an address that name a node ID, as        *)
(* (bundle, message) positions.                                            *)
Naming(address, node_id) ==
    UNION {{<< b, n >> : n \in
               {m \in Messages(osc_bundles[b], address) :
                   node_id \in NodeIdsOf(osc_bundles[b].contents[m])}} :
           b \in Positions(osc_bundles)}
Addresses(bundle) ==
    [n \in Positions(bundle.contents) |-> bundle.contents[n].address]

(* C17: every synth of the compiled session with a finite stop offset has  *)
(* exactly one synth-new message, in the bundle at its start offset, and   *)
(* its node ID stands, once, in exactly one node-free message, in the      *)
(* bundle at its stop offset, after the synth-new; a session of a single   *)
(* synth over [start, stop) with start < stop and without overrides,       *)
(* compiled without a timespan, gives exactly two bundles: at start a      *)
(* definition-receive and a synth-new, at stop a node-free.                *)
C17_NewThenFree ==
    Compiled =>
        /\ \A i \in Synths :
               IsFinite(Stop(i)) =>
                   /\ Cardinality(Naming("/s_new", SynthId(i))) = 1
                   /\ Cardinality(Naming("/n_free", SynthId(i))) = 1
                   /\ \A new \in Naming("/s_new", SynthId(i)),
                         free \in Naming("/n_free", SynthId(i)) :
                          /\ osc_bundles[new[1]].timestamp = Start(i)
                          /\ osc_bundles[free[1]].timestamp = Stop(i)
                          /\ Count(osc_bundles[free[1]].contents[free[2]].contents,
                                   SynthId(i)) = 1
                          /\ \/ new[1] < free[1]
                             \/ new[1] = free[1] /\ new[2] < free[2]
        /\ (/\ ~timespan.given
            /\ Len(synths) = 1
            /\ synths[1].events = {}
            /\ synths[1].start_offset < synths[1].stop_offset
            /\ IsFinite(synths[1].stop_offset)
            /\ \A i \in Positions(buses) : buses[i].events = << >>)
           => /\ Len(osc_bundles) = 2
              /\ osc_bundles[1].timestamp = synths[1].start_offset
              /\ Addresses(osc_bundles[1]) = << "/d_recv", "/s_new" >>
              /\ osc_bundles[2].timestamp = synths[1].stop_offset
              /\ osc_bundles[2].contents
                     = << OscMessage("/n_free", << FirstNodeId >>) >>

C17_Witness ==
    /\ Compiled
    /\ ~timespan.given
    /\ buses = << >>
    /\ Len(synths) = 1
    /\ synths[1].events = {}
    /\ synths[1].start_offset = 0
    /\ synths[1].stop_offset = MaxOffset
    /\ Len(osc_bundles) = 2

(* The overrides of synth i of the compiled session: << offset, value >>.  *)
Overrides(i) ==
    {<< e[1], e[3] >> : e \in {f \in session.synths[i].events : f[2] = "set"}}

(* C18: a parameter assigned to a synth at offset t gives a node-set       *)
(* message with the synth's node ID and the assigned value in a bundle     *)
(* with timestamp t; there is one such bundle only, so the node-set        *)
(* messages of several synths at the same t stand in the same bundle; and  *)
(* the synth-new message of the synth carries the settings the synth was   *)
(* added with, whatever was assigned later.                                *)
C18_OverrideIsNodeSet ==
    Compiled =>
        \A i \in Synths :
            /\ \A override \in Overrides(i) :
                   /\ Cardinality({b \in Positions(osc_bundles) :
                          osc_bundles[b].timestamp = override[1]}) = 1
                   /\ \E b \in Positions(osc_bundles) :
                          /\ osc_bundles[b].timestamp = override[1]
                          /\ \E n \in Messages(osc_bundles[b], "/n_set") :
                                 osc_bundles[b].contents[n].contents
                                     = << SynthId(i), override[2] >>
            /\ \A new \in Naming("/s_new", SynthId(i)) :
                   /\ osc_bundles[new[1]].timestamp = Start(i)
                   /\ osc_bundles[new[1]].contents[new[2]].contents
                          = << session.synths[i].synthdef, SynthId(i), 0, 0 >>
                                \o session.synths[i].synth_kwargs

(* Two synths, one added with a setting, are assigned values at the same   *)
(* offset, the one with the setting a value other than its setting.        *)
C18_Witness ==
    /\ Compiled
    /\ Len(session.synths) = 2
    /\ \E t \in Offsets, v \in 1..MaxValue, w \in 1..MaxValue :
           /\ << t, v >> \in Overrides(1)
           /\ << t, w >> \in Overrides(2)
           /\ t > Start(1)
           /\ session.synths[1].synth_kwargs # << >>
           /\ session.synths[1].synth_kwargs # << v >>
           /\ Cardinality(Messages(osc_bundles[CHOOSE b \in Positions(osc_bundles) :
                              osc_bundles[b].timestamp = t], "/n_set")) = 2

(* C19: every add_synth call leaves a session all of whose synths have     *)
(* offsets of zero or more and a start offset that is not after their stop *)
(* offset; and a call whose stop offset is before its start offset raises  *)
(* SchedulingError and leaves the synths as they were.                     *)
C19_ValidIntervals ==
    [][/\ \A i \in Positions(synths') :
              /\ synths'[i].start_offset >= 0
              /\ synths'[i].stop_offset >= 0
              /\ synths'[i].start_offset <= synths'[i].stop_offset
       /\ \A start_offset \in AnyOffsets, stop_offset \in AnyOffsets,
             synthdef \in SynthDefs :
              (/\ stop_offset < start_offset
               /\ add_synth(start_offset, stop_offset, synthdef, << >>,
                            ScheduleSynths))
              => /\ raised' = "SchedulingError"
                 /\ synths' = synths]_vars

(* A call with a stop offset before its start offset has failed after two  *)
(* synths were added, one of them with start offset = stop offset.         *)
C19_Witness ==
    /\ calls = 0
    /\ raised = "SchedulingError"
    /\ Len(synths) = 2
    /\ synths[1].start_offset = synths[1].stop_offset
    /\ synths[2].stop_offset = Infinity

(* C20: a call of to_osc_bundles or of to_datagram, with or without a      *)
(* timespan, leaves the session as it was: its synths with their events,   *)
(* its buses with their events, its input and its output channel count.    *)
C20_CallLeavesSession ==
    [][(calls' = calls + 1 /\ method' \in {"to_osc_bundles", "to_datagram"})
           => SessionUnchanged]_vars

(* to_datagram has returned for a timespan that cut the synths of the      *)
(* compiled copy, on a session with two synths and a bus with an event.    *)
C20_Witness ==
    /\ Compiled
    /\ method = "to_datagram"
    /\ timespan.given
    /\ Len(synths) = 2
    /\ session.synths # synths
    /\ session.buses # buses
    /\ \E i \in Positions(buses) : buses[i].events # << >>

(* C24: a call with a timespan takes the buses, their events and the       *)
(* channel counts from the session it was called on: every control bus     *)
(* with a value change at an offset inside the timespan gives a            *)
(* control-bus-set message in the result, and every audio bus of the       *)
(* session has an address, which is input_count + output_count or more.    *)
C24_RangeKeepsBuses ==
    (Compiled /\ timespan.given) =>
        /\ \A i \in Positions(buses) :
               (/\ buses[i].calculation_rate = CONTROL
                /\ \E e \in Positions(buses[i].events) :
                       /\ timespan.start_offset <= buses[i].events[e][1]
                       /\ buses[i].events[e][1] < timespan.stop_offset)
               => \E b \in Positions(osc_bundles) :
                      Messages(osc_bundles[b], "/c_set") # {}
        /\ \A i \in Positions(buses) :
               buses[i].calculation_rate = AUDIO
               => /\ << "bus", i >> \in DOMAIN id_mapping
                  /\ id_mapping[<< "bus", i >>] >= input_count + output_count

----------------------------------------------------------------------------
(* The trigger pattern slot of a mixer track                               *)
(* (track.add_trigger_pattern_slot(name, synthdef, pattern,                *)
(* maximum_replicas)): every slot.trigger(True) plays the next event of    *)
(* the pattern as a synth at the head of the slot's group.                 *)

MaxReplicas == 3
MaxTriggers == 5
MaxPatternLength == 2
MaxOtherNodes == 2

(* maximum_replicas is not given: any number of synths stay in the group.  *)
NoMaximum == 0
(* The node ID the server hands out first after the mixer is allocated.    *)
FirstSlotNodeId == 1023

(* Pbind(value=Pseq(values, None)): the values, over and over.             *)
SlotPatterns ==
    UNION {[1..n -> 1..MaxValue] : n \in 1..MaxPatternLength}

NewSlot(maximum_replicas, values) ==
    [ maximum_replicas |-> maximum_replicas, values |-> values,
      triggers |-> 0, next_node_id |-> FirstSlotNodeId, group |-> << >> ]

InitSlot ==
    /\ NewSessionOnly(DefaultInputCount, DefaultOutputCount)
    /\ slot \in {NewSlot(maximum_replicas, values) :
                    maximum_replicas \in {NoMaximum} \cup 1..MaxReplicas,
                    values \in SlotPatterns}
    /\ ugen = None
    /\ nodes = None
    /\ iterator = None
    /\ noise = None

(* The synths of the group after one more synth went to its head, the      *)
(* newest synth given up when there are too many.                          *)
Replicas_newestFreed(group, synth, maximum_replicas) ==
    IF maximum_replicas # NoMaximum /\ Len(group) >= maximum_replicas
    THEN group
    ELSE << synth >> \o group

(* The synths of the group after one more synth went to its head: beyond   *)
(* maximum_replicas the synths at the tail, the oldest, are freed.         *)
Replicas(group, synth, maximum_replicas) ==
    IF maximum_replicas # NoMaximum /\ Len(group) >= maximum_replicas
    THEN << synth >> \o SubSeq(group, 1, maximum_replicas - 1)
    ELSE << synth >> \o group

(* slot.trigger(True)                                                      *)
trigger ==
    /\ slot.triggers < MaxTriggers
    /\ LET synth ==
               [ node_id |-> slot.next_node_id,
                 value |-> slot.values[(slot.triggers % Len(slot.values)) + 1] ]
       IN slot' = [slot EXCEPT
              !.triggers = @ + 1,
              !.next_node_id = @ + 1,
              !.group = Replicas(@, synth, slot.maximum_replicas)]
    /\ UNCHANGED << ugen, nodes, iterator, noise >>
    /\ unchanged_session

(* Another node is allocated on the server: its node ID is used up.        *)
allocate_other_node ==
    /\ slot.next_node_id - slot.triggers < FirstSlotNodeId + MaxOtherNodes
    /\ slot' = [slot EXCEPT !.next_node_id = @ + 1]
    /\ UNCHANGED << ugen, nodes, iterator, noise >>
    /\ unchanged_session

NextSlot == trigger \/ allocate_other_node

SpecSlot == InitSlot /\ [][NextSlot]_vars

NodeIds(group) == {group[n].node_id : n \in Positions(group)}

----------------------------------------------------------------------------
(* Unit generators (supriya/tools/ugentools).  An argument of a unit       *)
(* generator class is one value or a sequence of values; a value is a      *)
(* number that stands for a constant or for the output of another unit     *)
(* generator.                                                              *)

MaxChannels == 3
MaxSignal == 2

Scalar(value) == [ sequence |-> FALSE, items |-> << value >> ]
Array(items) == [ sequence |-> TRUE, items |-> items ]
Scalars == {Scalar(value) : value \in 1..MaxSignal}
Arrays(least) ==
    {Array(items) :
        items \in UNION {[1..n -> 1..MaxSignal] : n \in least..MaxChannels}}

NotConstructed ==
    [ class |-> "", arguments |-> << >>, returned |-> << >>, raised |-> "" ]

InitUGen ==
    /\ NewSessionOnly(DefaultInputCount, DefaultOutputCount)
    /\ slot = None
    /\ ugen = NotConstructed
    /\ nodes = None
    /\ iterator = None
    /\ noise = None

(* cls._unexpanded_input_names, with no input of Out exempt.               *)
UnexpandedInputNames_none(class) == {}

(* cls._unexpanded_input_names                                             *)
UnexpandedInputNames(class) == IF class = "Out" THEN {"source"} ELSE {}

(* The inputs that expand: the sequences with elements that are not       *)
(* exempt.                                                                 *)
Expands(kwargs, unexpanded, name) ==
    /\ name \notin unexpanded
    /\ kwargs[name].sequence
    /\ kwargs[name].items # << >>

(* The width of the expansion: the greatest length among the inputs that   *)
(* expand; any other input counts 1.                                       *)
ExpansionWidth(kwargs, unexpanded) ==
    LET Size(name) ==
            IF Expands(kwargs, unexpanded, name)
            THEN Len(kwargs[name].items) ELSE 1
    IN CHOOSE width \in {Size(name) : name \in DOMAIN kwargs} :
           \A name \in DOMAIN kwargs : Size(name) <= width

(* Multichannel expansion of the arguments: instance i takes element       *)
(* i mod length of every input that expands and the other inputs as they   *)
(* are.                                                                    *)
ExpandDictionary(kwargs, unexpanded) ==
    [i \in 1..ExpansionWidth(kwargs, unexpanded) |->
        [name \in DOMAIN kwargs |->
            IF Expands(kwargs, unexpanded, name)
            THEN Scalar(kwargs[name].items[
                     ((i - 1) % Len(kwargs[name].items)) + 1])
            ELSE kwargs[name]]]

(* Out.__init__: UGen.__init__ configures bus; then every single source    *)
(* is configured as one more input.  Out._get_outputs: no outputs.         *)
OutInit(bus, source) ==
    [ class |-> "Out",
      inputs |-> << bus.items[1] >>
                 \o (IF ~source.sequence THEN << source.items[1] >>
                     ELSE source.items),
      channel_count |-> 0 ]

(* Pan2.__init__: the inputs in the order of _ordered_input_names, two     *)
(* channels.                                                               *)
Pan2ChannelCount == 2
Pan2Init(source, position, level) ==
    [ class |-> "Pan2",
      inputs |-> << source.items[1], position.items[1], level.items[1] >>,
      channel_count |-> Pan2ChannelCount ]

(* SharedIn.__init__: channel_count outputs; _ordered_input_names is       *)
(* empty.                                                                  *)
SharedInInit(bus, channel_count) ==
    [ class |-> "SharedIn", inputs |-> << >>,
      channel_count |-> channel_count.items[1] ]

NewSingle(class, kwargs) ==
    CASE class = "Out" -> OutInit(kwargs.bus, kwargs.source)
      [] class = "Pan2" ->
             Pan2Init(kwargs.source, kwargs.position, kwargs.level)
      [] class = "SharedIn" -> SharedInInit(kwargs.bus, kwargs.channel_count)

(* UGen._new_expanded: one unit generator, or the array of the instances.  *)
NewExpanded(class, kwargs) ==
    LET dictionaries == ExpandDictionary(kwargs, UnexpandedInputNames(class))
        ugens == [i \in 1..Len(dictionaries) |->
                     NewSingle(class, dictionaries[i])]
    IN [ array |-> Len(ugens) # 1, ugens |-> ugens ]

(* ugen[:]: the output proxies of one unit generator.                      *)
OutputProxies(ugens, i) ==
    [k \in 1..ugens[i].channel_count |->
        [ source |-> i, output_index |-> k - 1 ]]

(* MultiOutUGen._new_expanded returning the array also when it has one     *)
(* element.                                                                *)
MultiOutNewExpanded_noUnwrap(class, kwargs) ==
    LET expanded == NewExpanded(class, kwargs)
        output_proxies ==
            ConcatAll([i \in 1..Len(expanded.ugens) |->
                          OutputProxies(expanded.ugens, i)])
    IN IF output_proxies = << >>
       THEN [ raised |-> "AssertionError", returned |-> << >> ]
       ELSE [ raised |-> "",
              returned |-> [ array |-> TRUE, items |-> output_proxies,
                             ugens |-> expanded.ugens ] ]

(* MultiOutUGen._new_expanded; UGenArray.__init__ asserts len(ugens).      *)
MultiOutNewExpanded(class, kwargs) ==
    LET expanded == NewExpanded(class, kwargs)
        output_proxies ==
            ConcatAll([i \in 1..Len(expanded.ugens) |->
                          OutputProxies(expanded.ugens, i)])
    IN IF Len(output_proxies) = 1
       THEN [ raised |-> "",
              returned |-> [ array |-> FALSE, items |-> output_proxies,
                             ugens |-> expanded.ugens ] ]
       ELSE IF output_proxies = << >>
       THEN [ raised |-> "AssertionError", returned |-> << >> ]
       ELSE [ raised |-> "",
              returned |-> [ array |-> TRUE, items |-> output_proxies,
                             ugens |-> expanded.ugens ] ]

(* Out.ar(bus, source), Out.kr(bus, source)                                *)
Out_ar(bus, source) ==
    /\ ugen' = [ class |-> "Out",
                 arguments |-> [ bus |-> bus, source |-> source ],
                 returned |-> NewExpanded("Out",
                                  [ bus |-> bus, source |-> source ]),
                 raised |-> "" ]
    /\ UNCHANGED << slot, nodes, iterator, noise >>
    /\ unchanged_session

(* Pan2.ar(level, position, source)                                        *)
Pan2_ar(level, position, source) ==
    /\ LET kwargs == [ source |-> source, position |-> position,
                       level |-> level ]
           result == MultiOutNewExpanded("Pan2", kwargs)
       IN ugen' = [ class |-> "Pan2", arguments |-> kwargs,
                    returned |-> result.returned, raised |-> result.raised ]
    /\ UNCHANGED << slot, nodes, iterator, noise >>
    /\ unchanged_session

(* SharedIn.kr(bus, channel_count)                                         *)
SharedIn_kr(bus, channel_count) ==
    /\ LET kwargs == [ bus |-> bus, channel_count |-> Scalar(channel_count) ]
           result == MultiOutNewExpanded("SharedIn", kwargs)
       IN ugen' = [ class |-> "SharedIn", arguments |-> kwargs,
                    returned |-> result.returned, raised |-> result.raised ]
    /\ UNCHANGED << slot, nodes, iterator, noise >>
    /\ unchanged_session

NextUGen ==
    \/ \E bus \in Scalars \cup Arrays(MaxChannels),
          source \in Scalars \cup Arrays(0) :
          Out_ar(bus, source)
    \/ \E level \in Scalars, position \in Scalars \cup Arrays(MaxChannels),
          source \in Scalars \cup Arrays(1) :
          Pan2_ar(level, position, source)
    \/ \E bus \in Scalars \cup Arrays(1), channel_count \in 0..MaxChannels :
          SharedIn_kr(bus, channel_count)

SpecUGen == InitUGen /\ [][NextUGen]_vars

(* C22: Out called with one bus and a source of n channels returns one Out *)
(* unit generator, not an array; its inputs are the bus and then the n     *)
(* channels of the source in their order, n + 1 inputs, where a source     *)
(* that is no sequence is one channel; and it has no outputs.              *)
C22_OutKeepsSource ==
    (ugen.class = "Out" /\ ~ugen.arguments.bus.sequence) =>
        LET source == ugen.arguments.source
            n == IF source.sequence THEN Len(source.items) ELSE 1
        IN /\ ~ugen.returned.array
           /\ Len(ugen.returned.ugens) = 1
           /\ Len(ugen.returned.ugens[1].inputs) = n + 1
           /\ ugen.returned.ugens[1].inputs[1] = ugen.arguments.bus.items[1]
           /\ \A k \in 1..n :
                  ugen.returned.ugens[1].inputs[k + 1] = source.items[k]
           /\ ugen.returned.ugens[1].channel_count = 0

(* Out was called with one bus and a source of MaxChannels channels that   *)
(* are not all the same.                                                   *)
C22_Witness ==
    /\ ugen.class = "Out"
    /\ ~ugen.arguments.bus.sequence
    /\ ugen.arguments.source.sequence
    /\ Len(ugen.arguments.source.items) = MaxChannels
    /\ ugen.arguments.source.items[1] # ugen.arguments.source.items[MaxChannels]
    /\ Len(ugen.returned.ugens[1].inputs) = MaxChannels + 1

MultiOut == {"Pan2", "SharedIn"}

(* The number of instances a call gives: the greatest length among its     *)
(* arguments that are sequences.                                           *)
Instances ==
    LET Length(name) == IF ugen.arguments[name].sequence
                        THEN Len(ugen.arguments[name].items) ELSE 1
    IN CHOOSE width \in {Length(name) : name \in DOMAIN ugen.arguments} :
           \A name \in DOMAIN ugen.arguments : Length(name) <= width

(* The channel count of every instance of the call.                        *)
Channels ==
    IF ugen.class = "Pan2" THEN Pan2ChannelCount
    ELSE ugen.arguments.channel_count.items[1]

(* C23: a call of a multi-output unit generator class that gives w         *)
(* instances of c channels each returns the w * c output proxies, those of *)
(* the first instance first and within an instance by ascending output     *)
(* index; Pan2 over a source of two channels returns four.  One proxy      *)
(* alone is returned bare, not as an array, and no array returned is       *)
(* empty: without any output the call raises AssertionError.               *)
C23_FlatOutputProxies ==
    ugen.class \in MultiOut =>
        IF Instances * Channels = 0
        THEN ugen.raised = "AssertionError" /\ ugen.returned = << >>
        ELSE /\ ugen.raised = ""
             /\ Len(ugen.returned.ugens) = Instances
             /\ \A i \in 1..Instances :
                    ugen.returned.ugens[i].channel_count = Channels
             /\ ugen.returned.items
                    = [n \in 1..(Instances * Channels) |->
                          [ source |-> ((n - 1) \div Channels) + 1,
                            output_index |-> (n - 1) % Channels ]]
             /\ ugen.returned.array <=> Len(ugen.returned.items) # 1
             /\ ugen.returned.array => ugen.returned.items # << >>
             /\ (/\ ugen.class = "Pan2"
                 /\ \A name \in {"position", "level"} :
                        ~ugen.arguments[name].sequence
                 /\ ugen.arguments.source.sequence
                 /\ Len(ugen.arguments.source.items) = Pan2ChannelCount)
                => Len(ugen.returned.items) = Pan2ChannelCount * Pan2ChannelCount

(* Pan2 was called with a source of two different channels and has         *)
(* returned four output proxies, the last the second output of the second  *)
(* instance, whose source is the second channel.                           *)
C23_Witness ==
    /\ ugen.class = "Pan2"
    /\ ugen.raised = ""
    /\ ~ugen.arguments.position.sequence
    /\ ugen.arguments.source.sequence
    /\ Len(ugen.arguments.source.items) = Pan2ChannelCount
    /\ ugen.arguments.source.items[1] # ugen.arguments.source.items[2]
    /\ ugen.returned.array
    /\ Len(ugen.returned.items) = Pan2ChannelCount * Pan2ChannelCount
    /\ ugen.returned.ugens[2].inputs[1] = ugen.arguments.source.items[2]

----------------------------------------------------------------------------
(* The groups of the realtime server (supriya/tools/servertools/Group.py). *)
(* The nodes are numbered 1..MaxNodes in the order of their allocation;    *)
(* parent[n] is the group that node n is a child of, or 0.                 *)

MaxNodes == 4

NodeTrees ==
    {tree \in [ parent : [1..MaxNodes -> 0..(MaxNodes - 1)],
                group : [1..MaxNodes -> BOOLEAN] ] :
        \A n \in 1..MaxNodes :
            /\ tree.parent[n] < n
            /\ tree.parent[n] # 0 => tree.group[tree.parent[n]]}

InitNodes ==
    /\ NewSessionOnly(DefaultInputCount, DefaultOutputCount)
    /\ slot = None
    /\ ugen = None
    /\ nodes \in {[ parent |-> tree.parent, group |-> tree.group,
                     freed |-> << >>, sent |-> << >> ] : tree \in NodeTrees}
    /\ iterator = None
    /\ noise = None

(* Group.children: a tuple of the children in the order in which they were *)
(* added.                                                                  *)
Children(tree, g) ==
    Ascending({n \in 1..MaxNodes : tree.parent[n] = g})

(* Node.free(send_to_server): the node is freed and is no child of its     *)
(* group any more, and the server is told when send_to_server is true.     *)
NodeFree(tree, n, send_to_server) ==
    [tree EXCEPT
        !.parent[n] = 0,
        !.freed = Append(@, n),
        !.sent = IF send_to_server THEN Append(@, << "/n_free", n >>) ELSE @]

RECURSIVE GroupFree_childrenSend(_, _, _)
RECURSIVE GroupFree(_, _, _)
RECURSIVE FreeChildren(_, _, _)

(* Synth.free and Group.free of the children of a group, one after the     *)
(* other.                                                                  *)
FreeChildren(tree, children, send_to_server) ==
    IF children = << >> THEN tree
    ELSE FreeChildren(
             IF tree.group[Head(children)]
             THEN GroupFree(tree, Head(children), send_to_server)
             ELSE NodeFree(tree, Head(children), send_to_server),
             Tail(children), send_to_server)

(* Group.free passing its own send_to_server on to the children.           *)
GroupFree_childrenSend(tree, g, send_to_server) ==
    NodeFree(FreeChildren(tree, Children(tree, g), send_to_server),
             g, send_to_server)

(* Group.free(send_to_server)                                              *)
GroupFree(tree, g, send_to_server) ==
    NodeFree(FreeChildren(tree, Children(tree, g), FALSE), g, send_to_server)

(* group.free(send_to_server) on a group that is allocated.                *)
free(g, send_to_server) ==
    /\ nodes.group[g]
    /\ g \notin SeqToSet(nodes.freed)
    /\ nodes' = GroupFree(nodes, g, send_to_server)
    /\ UNCHANGED << slot, ugen, iterator, noise >>
    /\ unchanged_session

NextNodes ==
    \E g \in 1..MaxNodes, send_to_server \in BOOLEAN : free(g, send_to_server)

SpecNodes == InitNodes /\ [][NextNodes]_vars

RECURSIVE Descendants(_)
Descendants(g) ==
    LET children == {n \in 1..MaxNodes : nodes.parent[n] = g}
    IN children \cup UNION {Descendants(n) : n \in children}

(* What one call has freed and sent.                                       *)
NewlyFreed == SubSeq(nodes'.freed, Len(nodes.freed) + 1, Len(nodes'.freed))
NewlySent == SubSeq(nodes'.sent, Len(nodes.sent) + 1, Len(nodes'.sent))

(* C25: group.free(send_to_server) frees every descendant of the group,    *)
(* and after them, last, the group; the only message it may send is the    *)
(* free message of the group, sent exactly when send_to_server is true,    *)
(* however many descendants the group has.                                 *)
C25_ChildrenFreedSilently ==
    [][\A g \in 1..MaxNodes, send_to_server \in BOOLEAN :
          free(g, send_to_server) =>
              /\ Descendants(g) \subseteq SeqToSet(NewlyFreed)
              /\ NewlyFreed # << >>
              /\ NewlyFreed[Len(NewlyFreed)] = g
              /\ \A n \in Descendants(g) : nodes.group[n] =>
                     \A m \in Descendants(n) :
                         \E i, j \in Positions(NewlyFreed) :
                             /\ NewlyFreed[i] = m
                             /\ NewlyFreed[j] = n
                             /\ i < j
              /\ Len(NewlySent) <= 1
              /\ NewlySent
                     = IF send_to_server THEN << << "/n_free", g >> >>
                       ELSE << >>]_vars

(* The first group, with all the other nodes as its descendants, was freed *)
(* with send_to_server = True; the node freed first is the child of a      *)
(* group among them, which was freed right after it.                       *)
C25_Witness ==
    /\ nodes # None
    /\ Len(nodes.freed) = MaxNodes
    /\ nodes.freed[MaxNodes] = 1
    /\ nodes.sent = << << "/n_free", 1 >> >>
    /\ nodes.freed[1] > nodes.freed[2]
    /\ nodes.group[nodes.freed[2]]

----------------------------------------------------------------------------
(* Patterns (supriya/newpatterns/patterns.py).  An item of a sequence or   *)
(* an operand is a pattern or a value that is no pattern, a number here.   *)

MaxConstant == 2
MaxLength == 2
MaxIterations == 2
MaxYields == 5

(* iterations is None or << n >>.                                          *)
NoIterations == None

Constant(value) == [ class |-> "Constant", value |-> value ]
IsPattern(x) == x.class # "Constant"

(* SequencePattern.__init__ with arguments that pass its checks.           *)
SequencePattern(sequence, iterations) ==
    [ class |-> "SequencePattern", sequence |-> sequence,
      iterations |-> iterations ]

(* UnaryOpPattern.__init__                                                 *)
UnaryOpPattern(expr, operator) ==
    [ class |-> "UnaryOpPattern", expr |-> expr, operator |-> operator ]

(* BinaryOpPattern.__init__                                                *)
BinaryOpPattern(expr_one, operator, expr_two) ==
    [ class |-> "BinaryOpPattern", expr_one |-> expr_one,
      operator |-> operator, expr_two |-> expr_two ]

(* The iterator iter(pattern): Pattern.__iter__ starts pattern._iterate()  *)
(* and passes every value sent to it on to that generator and every value  *)
(* that generator yields on to its caller, until the generator is          *)
(* exhausted.  A state of the iterator is the place where the generator    *)
(* stands: before its first value, at the yield of an item (with the       *)
(* iterator of that item when it is a pattern), or at its end.             *)
NotStarted == [ pc |-> "start" ]
Exhausted == [ pc |-> "done" ]
AtYield(loop, index, inner) ==
    [ pc |-> "yield", loop |-> loop, index |-> index, inner |-> inner ]

(* What a next() or send() on an iterator gives: a value ("yield"), the    *)
(* end of the iteration ("StopIteration"), another exception, or no return *)
(* at all ("hang").                                                        *)
Yield(gen, value) == [ gen |-> gen, kind |-> "yield", value |-> value ]
End(kind) == [ gen |-> Exhausted, kind |-> kind, value |-> 0 ]

(* UnaryOpPattern._string_to_operator                                      *)
UnaryOperator(operator, value) ==
    CASE operator = "-" -> 0 - value
      [] operator = "+" -> value
      [] operator = "abs" -> IF value < 0 THEN 0 - value ELSE value

(* Pattern._loop: is there a pass number `loop`.                           *)
Loop_oneMore(iterations, loop) == iterations = NoIterations \/ loop <= iterations[1] + 1

Loop(iterations, loop) == iterations = NoIterations \/ loop <= iterations[1]

RECURSIVE Resume(_, _, _)
RECURSIVE SequenceIterate(_, _, _, _)

(* SequencePattern._iterate from item `index` of pass `loop` on, up to its *)
(* next yield.  silent: no item of this pass has yielded anything; with    *)
(* iterations=None a pass that ends silent is followed by silent passes    *)
(* without end.                                                            *)
SequenceIterate(pattern, loop, index, silent) ==
    IF ~Loop(pattern.iterations, loop) THEN End("StopIteration")
    ELSE IF index > Len(pattern.sequence)
    THEN IF pattern.iterations = NoIterations
         THEN IF silent THEN End("hang")
              ELSE SequenceIterate(pattern, loop, 1, TRUE)
         ELSE SequenceIterate(pattern, loop + 1, 1, TRUE)
    ELSE LET x == pattern.sequence[index]
         IN IF ~IsPattern(x)
            THEN Yield(AtYield(loop, index, NotStarted), x.value)
            ELSE LET first == Resume(x, NotStarted, FALSE)
                 IN CASE first.kind = "yield" ->
                             Yield(AtYield(loop, index, first.gen), first.value)
                      [] first.kind = "StopIteration" ->
                             SequenceIterate(pattern, loop, index + 1, silent)
                      [] OTHER -> End(first.kind)

(* SequencePattern._iterate resumed at the yield of an item with the value *)
(* `sent`, which it takes for should_stop.                                 *)
SequenceResume(pattern, gen, sent) ==
    LET x == pattern.sequence[gen.index]
    IN IF ~IsPattern(x)
       THEN IF sent THEN End("StopIteration")
            ELSE SequenceIterate(pattern, gen.loop, gen.index + 1, FALSE)
       ELSE LET y == Resume(x, gen.inner, sent)
            IN CASE y.kind = "yield" ->
                        Yield(AtYield(gen.loop, gen.index, y.gen), y.value)
                 [] y.kind = "StopIteration" ->
                        IF sent THEN End("StopIteration")
                        ELSE SequenceIterate(pattern, gen.loop, gen.index + 1,
                                             FALSE)
                 [] OTHER -> End(y.kind)

(* An operand that is no pattern is iterated as SequencePattern([expr],    *)
(* None).                                                                  *)
Operand(expr) ==
    IF IsPattern(expr) THEN expr
    ELSE SequencePattern(<< expr >>, NoIterations)

(* UnaryOpPattern._iterate: `for result in expr: yield operator(result)`;  *)
(* the value sent to the yield is dropped and the operand is asked for its *)
(* next value with next().                                                 *)
UnaryOpResume(pattern, gen, sent) ==
    LET result == Resume(Operand(pattern.expr),
                         IF gen = NotStarted THEN NotStarted ELSE gen.inner, FALSE)
    IN CASE result.kind = "yield" ->
                Yield(AtYield(1, 1, result.gen),
                      UnaryOperator(pattern.operator, result.value))
         [] OTHER -> End(result.kind)

(* BinaryOpPattern._iterate: _string_to_operator builds its table of       *)
(* operators with operator.__mode__, which the operator module does not    *)
(* have, before the first pair of values is taken.                         *)
BinaryOpResume(pattern, gen, sent) == End("AttributeError")

(* iter(pattern).send(sent); next() is the send of None to an iterator     *)
(* that has not started.                                                   *)
Resume(pattern, gen, sent) ==
    CASE pattern.class = "SequencePattern" ->
             IF gen = NotStarted THEN SequenceIterate(pattern, 1, 1, TRUE)
             ELSE SequenceResume(pattern, gen, sent)
      [] pattern.class = "UnaryOpPattern" -> UnaryOpResume(pattern, gen, sent)
      [] pattern.class = "BinaryOpPattern" -> BinaryOpResume(pattern, gen, sent)

(* SequencePattern.is_infinite, UnaryOpPattern.is_infinite,                *)
(* BinaryOpPattern.is_infinite                                             *)
RECURSIVE IsInfinite(_)
IsInfinite(pattern) ==
    CASE pattern.class = "SequencePattern" ->
             \/ pattern.iterations = NoIterations
             \/ \E i \in 1..Len(pattern.sequence) :
                    /\ IsPattern(pattern.sequence[i])
                    /\ IsInfinite(pattern.sequence[i])
      [] pattern.class = "UnaryOpPattern" ->
             IsPattern(pattern.expr) /\ IsInfinite(pattern.expr)
      [] pattern.class = "BinaryOpPattern" ->
             /\ IsPattern(pattern.expr_one)
             /\ IsPattern(pattern.expr_two)
             /\ IsInfinite(pattern.expr_one)
             /\ IsInfinite(pattern.expr_two)

(* SequencePattern(sequence, iterations) as it is called: sequence may be  *)
(* something that is no sequence, iterations any integer or None.          *)
NewSequencePattern(sequence, iterations) ==
    IF ~sequence.sequence
    THEN [ raised |-> "ValueError", pattern |-> None ]
    ELSE IF iterations # NoIterations /\ iterations[1] < 1
    THEN [ raised |-> "ValueError", pattern |-> None ]
    ELSE [ raised |-> "",
           pattern |-> SequencePattern(sequence.items, iterations) ]

(* The patterns iterated: sequences of numbers; operator patterns over     *)
(* numbers and those; sequences whose first item is one of these patterns; *)
(* and sequences whose first item is such a sequence.                      *)
Constants == {Constant(value) : value \in 1..MaxConstant}
Iterations == {NoIterations} \cup {<< n >> : n \in 1..MaxIterations}
SequencesOver(items, lengths) ==
    UNION {[1..n -> items] : n \in lengths}
Flat ==
    {SequencePattern(sequence, iterations) :
        sequence \in SequencesOver(Constants, 0..MaxLength),
        iterations \in Iterations}
Operators ==
    {UnaryOpPattern(expr, "-") : expr \in Constants \cup Flat}
    \cup {BinaryOpPattern(expr_one, "+", expr_two) :
             expr_one \in Constants \cup Flat,
             expr_two \in {Constant(1),
                           SequencePattern(<< Constant(1) >>, NoIterations)}}
Nested ==
    {SequencePattern(<< pattern >> \o rest, iterations) :
        pattern \in Flat \cup Operators,
        rest \in SequencesOver(Constants, 0..1),
        iterations \in Iterations}
Deep ==
    {SequencePattern(<< pattern >> \o rest, iterations) :
        pattern \in {nested \in Nested : Len(nested.sequence) = 1},
        rest \in SequencesOver(Constants, 0..1),
        iterations \in Iterations}

NotIterating ==
    [ called |-> None, pattern |-> None, raised |-> "", gen |-> NotStarted,
      yielded |-> << >>, stopped |-> FALSE, outcome |-> "" ]

InitIterator ==
    /\ NewSessionOnly(DefaultInputCount, DefaultOutputCount)
    /\ slot = None
    /\ ugen = None
    /\ nodes = None
    /\ iterator = NotIterating
    /\ noise = None

(* pattern = SequencePattern(sequence, iterations)                         *)
new_SequencePattern(sequence, iterations) ==
    /\ iterator = NotIterating
    /\ LET new == NewSequencePattern(sequence, iterations)
       IN iterator' = [iterator EXCEPT !.called = << sequence, iterations >>,
                                       !.pattern = new.pattern,
                                       !.raised = new.raised]
    /\ UNCHANGED << slot, ugen, nodes, noise >>
    /\ unchanged_session

(* pattern = UnaryOpPattern(...) or BinaryOpPattern(...)                   *)
new_OpPattern(pattern) ==
    /\ iterator = NotIterating
    /\ iterator' = [iterator EXCEPT !.pattern = pattern]
    /\ UNCHANGED << slot, ugen, nodes, noise >>
    /\ unchanged_session

(* What a next() or send(sent) on iter(pattern) leaves: the value appended *)
(* to those yielded so far, or the way the iteration ended.                *)
Resumed(sent) ==
    LET result == Resume(iterator.pattern, iterator.gen, sent)
    IN iterator' = [iterator EXCEPT
           !.gen = result.gen,
           !.yielded = IF result.kind = "yield" THEN Append(@, result.value)
                       ELSE @,
           !.stopped = @ \/ sent,
           !.outcome = IF result.kind = "yield" THEN "" ELSE result.kind]

(* next(iterator), the first time.                                         *)
next_iterator ==
    /\ iterator.pattern # None
    /\ iterator.gen = NotStarted
    /\ iterator.outcome = ""
    /\ Resumed(FALSE)
    /\ UNCHANGED << slot, ugen, nodes, noise >>
    /\ unchanged_session

(* iterator.send(sent) after a value was yielded.                          *)
send(sent) ==
    /\ iterator.gen # NotStarted
    /\ iterator.gen # Exhausted
    /\ Len(iterator.yielded) < MaxYields
    /\ Resumed(sent)
    /\ UNCHANGED << slot, ugen, nodes, noise >>
    /\ unchanged_session

NextIterator ==
    \/ \E sequence \in {Array(items) :
                           items \in SequencesOver(Constants, 0..MaxLength)}
                       \cup {Scalar(item) : item \in Constants},
          iterations \in Iterations \cup {<< 0 >>, << 0 - 1 >>} :
          new_SequencePattern(sequence, iterations)
    \/ \E sequence \in {Array(pattern.sequence) : pattern \in Nested \cup Deep},
          iterations \in Iterations :
          new_SequencePattern(sequence, iterations)
    \/ \E pattern \in Operators : new_OpPattern(pattern)
    \/ next_iterator
    \/ \E sent \in BOOLEAN : send(sent)

SpecIterator == InitIterator /\ [][NextIterator]_vars

(* C26: once a true value is sent into the iterator of a SequencePattern,  *)
(* no further value is yielded and the iterator ends with StopIteration,   *)
(* whichever nested pattern the value being yielded came from.  A nested   *)
(* UnaryOpPattern drops the value sent to it, so its operand goes on.      *)
C26_StopEndsIteration ==
    [][(/\ iterator # None
        /\ iterator.pattern # None
        /\ iterator.pattern.class = "SequencePattern"
        /\ iterator'.stopped)
       => (/\ iterator'.yielded = iterator.yielded
           /\ iterator'.outcome = "StopIteration")]_vars

(* The pattern is a SequencePattern over items that are no patterns, and   *)
(* no true value was sent to its iterator.                                 *)
PlainSequence ==
    /\ iterator.pattern # None
    /\ iterator.pattern.class = "SequencePattern"
    /\ \A i \in 1..Len(iterator.pattern.sequence) :
           ~IsPattern(iterator.pattern.sequence[i])
    /\ ~iterator.stopped

(* C27: a SequencePattern over k items that are no patterns with           *)
(* iterations = n >= 1 yields the items in order, n times over, n*k values *)
(* in all, and then ends; with iterations = None it does not end by        *)
(* itself; SequencePattern(sequence, iterations) raises ValueError when    *)
(* sequence is no sequence or iterations < 1, and only then.               *)
C27_SequenceYields ==
    /\ PlainSequence =>
           LET sequence == iterator.pattern.sequence
               k == Len(sequence)
               iterations == iterator.pattern.iterations
           IN /\ \A j \in 1..Len(iterator.yielded) :
                     iterator.yielded[j] = sequence[((j - 1) % k) + 1].value
              /\ iterations # NoIterations =>
                     /\ Len(iterator.yielded) <= iterations[1] * k
                     /\ iterator.outcome \in {"", "StopIteration"}
                     /\ iterator.gen = Exhausted <=>
                            iterator.outcome = "StopIteration"
                     /\ iterator.outcome = "StopIteration" =>
                            Len(iterator.yielded) = iterations[1] * k
              /\ iterations = NoIterations =>
                     /\ iterator.outcome # "StopIteration"
                     /\ k > 0 => iterator.gen # Exhausted
    /\ iterator # None /\ iterator.called # None =>
           LET sequence == iterator.called[1]
               iterations == iterator.called[2]
               invalid == \/ ~sequence.sequence
                          \/ iterations # NoIterations /\ iterations[1] < 1
           IN /\ invalid <=> iterator.raised = "ValueError"
              /\ invalid <=> iterator.pattern = None
              /\ ~invalid =>
                     iterator.pattern
                         = SequencePattern(sequence.items, iterations)

C27_Witness ==
    /\ iterator # None
    /\ PlainSequence
    /\ Len(iterator.pattern.sequence) = MaxLength
    /\ iterator.pattern.sequence[1] # iterator.pattern.sequence[MaxLength]
    /\ iterator.pattern.iterations = << MaxIterations >>
    /\ Len(iterator.yielded) = MaxIterations * MaxLength
    /\ iterator.outcome = "StopIteration"

C27_WitnessEndless ==
    /\ iterator # None
    /\ PlainSequence
    /\ Len(iterator.pattern.sequence) = 1
    /\ iterator.pattern.iterations = NoIterations
    /\ Len(iterator.yielded) = MaxYields

C27_WitnessValueError ==
    /\ iterator # None
    /\ iterator.called # None
    /\ iterator.called[1].sequence
    /\ iterator.called[2] = << 0 >>
    /\ iterator.raised = "ValueError"

(* No pattern iterated that ends by itself yields more values than this:   *)
(* a sequence yields at most MaxIterations times the values of its items.  *)
LongestFlat == MaxIterations * MaxLength
LongestNested == MaxIterations * (LongestFlat + 1)
LongestDeep == MaxIterations * (LongestNested + 1)

(* Iterating the pattern from gen with next() alone ends, by StopIteration *)
(* or by an exception, after at most `values` values.                      *)
RECURSIVE Ends(_, _, _)
Ends(pattern, gen, values) ==
    LET result == Resume(pattern, gen, FALSE)
    IN IF result.kind = "yield"
       THEN values > 0 /\ Ends(pattern, result.gen, values - 1)
       ELSE result.kind # "hang"

(* C30: for every SequencePattern, UnaryOpPattern and BinaryOpPattern,     *)
(* is_infinite is True exactly when iterating the pattern with no stop     *)
(* signal never ends.  UnaryOpPattern(1, "-") yields -1 for ever and is    *)
(* not infinite; a BinaryOpPattern of two endless patterns is infinite and *)
(* its iteration ends at the first next() with AttributeError.             *)
C30_InfiniteIffEndless ==
    (/\ iterator # None
     /\ iterator.pattern # None
     /\ iterator.gen = NotStarted)
    => (IsInfinite(iterator.pattern)
            <=> ~Ends(iterator.pattern, NotStarted, LongestDeep))

(***************************************************************************)
(* ChoicePattern and ShufflePattern (newpatterns/noise.py).  The random    *)
(* number stream is any stream: a draw is int(next(rng) * 0x7FFFFFFF),     *)
(* of which only the remainder by a length is used.                        *)
(***************************************************************************)
MaxSequence == 3
MaxDraw == 2
MaxPasses == 2

Draws == 0..MaxDraw

(* The draws one selection takes from the stream.                          *)
Rngs(count) == [1..count -> Draws]

(* indices.pop(index), with index counted from 0                           *)
Pop(indices, index) ==
    [i \in 1..(Len(indices) - 1) |->
        IF i <= index THEN indices[i] ELSE indices[i + 1]]

RECURSIVE ShuffleIndices(_, _, _)
ShuffleIndices_dropLast(indices, rng, shuffled) == IF Len(indices) > 1 THEN ShuffleIndices(Pop(indices, Head(rng) % Len(indices)), Tail(rng), Append(shuffled, indices[(Head(rng) % Len(indices)) + 1])) ELSE shuffled

(* The loop of ShufflePattern._shuffle and the statement after it.         *)
ShuffleIndices(indices, rng, shuffled) ==
    IF Len(indices) > 1
    THEN LET index == Head(rng) % Len(indices)
         IN ShuffleIndices(Pop(indices, index), Tail(rng),
                           Append(shuffled, indices[index + 1]))
    ELSE IF Len(indices) = 1
    THEN Append(shuffled, indices[1])
    ELSE shuffled

(* ShufflePattern._shuffle(length, rng)                                    *)
shuffle(length, rng) ==
    ShuffleIndices([i \in 1..length |-> i - 1], rng, << >>)

(* ChoicePattern._find_index_unweighted                                    *)
find_index_unweighted(rng, length) == Head(rng) % length

(* The draws that one selection of the pattern takes.                      *)
DrawCount(class, length) ==
    IF class = "ChoicePattern" THEN 1
    ELSE IF length > 1 THEN length - 1 ELSE 0

NoNoise ==
    [ class |-> "", length |-> 0, iterations |-> None,
      forbid_repetitions |-> FALSE, pc |-> "new", previous_index |-> None,
      indices |-> << >>, position |-> 0, loop |-> 0, outcome |-> "" ]

InitNoise ==
    /\ NewSessionOnly(DefaultInputCount, DefaultOutputCount)
    /\ slot = None
    /\ ugen = None
    /\ nodes = None
    /\ iterator = None
    /\ noise = NoNoise

(* ChoicePattern(sequence, iterations, forbid_repetitions, weights=())     *)
(* or ShufflePattern(sequence, iterations, forbid_repetitions), and the    *)
(* first next() on its iterator up to the first pass of the loop.          *)
new_noise(class, length, iterations, forbid_repetitions) ==
    /\ noise = NoNoise
    /\ noise' = [noise EXCEPT !.class = class, !.length = length,
                              !.iterations = iterations,
                              !.forbid_repetitions = forbid_repetitions,
                              !.pc = "pass", !.loop = 1]
    /\ UNCHANGED << slot, ugen, nodes, iterator >>
    /\ unchanged_session

(* One selection: the statement before the while loop when pc is "pass",   *)
(* the body of the while loop when pc is "while".                          *)
Selection(pattern, rng) ==
    IF pattern.class = "ChoicePattern"
    THEN IF pattern.length = 0
         THEN [pattern EXCEPT !.pc = "done", !.outcome = "ZeroDivisionError"]
         ELSE LET index == find_index_unweighted(rng, pattern.length)
              IN IF /\ pattern.forbid_repetitions
                    /\ << index >> = pattern.previous_index
                 THEN [pattern EXCEPT !.pc = "while"]
                 ELSE [pattern EXCEPT !.pc = "yield",
                                      !.previous_index = << index >>,
                                      !.indices = << index >>,
                                      !.position = 0]
    ELSE LET indices == shuffle(pattern.length, rng)
         IN IF indices = << >>
            THEN [pattern EXCEPT !.pc = "done", !.outcome = "IndexError",
                                 !.indices = indices]
            ELSE IF /\ pattern.forbid_repetitions
                    /\ << indices[1] >> = pattern.previous_index
            THEN [pattern EXCEPT !.pc = "while", !.indices = indices]
            ELSE [pattern EXCEPT
                      !.pc = "yield",
                      !.previous_index = << indices[Len(indices)] >>,
                      !.indices = indices,
                      !.position = 0]

select(rng) ==
    /\ noise.pc \in {"pass", "while"}
    /\ noise' = Selection(noise, rng)
    /\ UNCHANGED << slot, ugen, nodes, iterator >>
    /\ unchanged_session

(* yield choice, for the next of the indices selected; after the last one  *)
(* the next pass of _loop(iterations), if there is one.                    *)
yield_choice ==
    /\ noise.pc = "yield"
    /\ noise' =
           IF noise.position + 1 < Len(noise.indices)
           THEN [noise EXCEPT !.position = @ + 1]
           ELSE IF noise.iterations = NoIterations
           THEN [noise EXCEPT !.position = @ + 1, !.pc = "pass"]
           ELSE IF Loop(noise.iterations, noise.loop + 1)
           THEN [noise EXCEPT !.position = @ + 1, !.pc = "pass",
                              !.loop = @ + 1]
           ELSE [noise EXCEPT !.position = @ + 1, !.pc = "done",
                              !.outcome = "StopIteration"]
    /\ UNCHANGED << slot, ugen, nodes, iterator >>
    /\ unchanged_session

NextNoise ==
    \/ \E class \in {"ChoicePattern", "ShufflePattern"},
          length \in 0..MaxSequence,
          iterations \in {NoIterations} \cup {<< n >> : n \in 1..MaxPasses},
          forbid_repetitions \in BOOLEAN :
          new_noise(class, length, iterations, forbid_repetitions)
    \/ \E rng \in Rngs(DrawCount(noise.class, noise.length)) : select(rng)
    \/ yield_choice

SpecNoise == InitNoise /\ [][NextNoise]_vars

IsPermutation(indices, length) ==
    /\ Len(indices) = length
    /\ \A index \in 0..(length - 1) :
           Cardinality({i \in 1..Len(indices) : indices[i] = index}) = 1

(* C29: _shuffle(length, rng) is a permutation of 0..length-1 for every    *)
(* length >= 0 and every random number stream, and a pass of a             *)
(* ShufflePattern that has come to its end has yielded the element at      *)
(* every index once.                                                       *)
C29_ShuffleIsPermutation ==
    (/\ noise # None
     /\ noise.class = "ShufflePattern")
    => /\ \A rng \in Rngs(DrawCount(noise.class, noise.length)) :
              IsPermutation(shuffle(noise.length, rng), noise.length)
       /\ noise.pc # "pass" \/ noise.loop > 1 \/ noise.position > 0 =>
              IsPermutation(noise.indices, noise.length)
       /\ noise.pc \in {"pass", "done"} /\ noise.position > 0 =>
              noise.position = noise.length

C29_Witness ==
    /\ noise # None
    /\ noise.class = "ShufflePattern"
    /\ noise.length = MaxSequence
    /\ noise.pc = "done"
    /\ noise.outcome = "StopIteration"
    /\ noise.loop = MaxPasses
    /\ noise.indices[1] = MaxSequence - 1
    /\ noise.position = MaxSequence
====
